---- MODULE Spec2Model ----
(***************************************************************************)
(* Contentful knowledge connector: content assembly (utils.ts), chunking   *)
(* and the import connectors' run loop, as a state machine.                *)
(*                                                                         *)
(* Strings are TLA+ strings (Len, \o and SubSeq are the only operations    *)
(* used on them).  SANY cannot lex a grave accent inside a string, so the  *)
(* Markdown fence of three grave accents is written as three apostrophes   *)
(* (FENCE below); no other text of the model contains an apostrophe.       *)
(***************************************************************************)
EXTENDS Integers, Sequences, FiniteSets, TLC

\* ------------------------------------------------------------------------
\* JavaScript string primitives
\* ------------------------------------------------------------------------

Char(s, i) == SubSeq(s, i, i)

SetMin(S) == CHOOSE x \in S : \A y \in S : x <= y

SetMax(S) == 0 - SetMin({0 - x : x \in S})

\* String.prototype.repeat
RECURSIVE Repeat(_, _)
Repeat(c, n) ==
    IF n <= 0 THEN ""
    ELSE LET h == Repeat(c, n \div 2)
         IN  IF n % 2 = 0 THEN h \o h ELSE h \o h \o c

WhiteSpace == {" ", "\n", "\t", "\r"}

\* the least i in lo..hi with P(i); 0 when there is none
First(lo, hi, P(_)) ==
    IF \E i \in lo..hi : P(i)
    THEN CHOOSE i \in lo..hi : P(i) /\ \A j \in lo..(i - 1) : ~P(j)
    ELSE 0

\* String.prototype.trim
Trim(s) ==
    LET Inked(i) == Char(s, i) \notin WhiteSpace
        InkedFromEnd(k) == Char(s, Len(s) + 1 - k) \notin WhiteSpace
        first == First(1, Len(s), Inked)
    IN  IF first = 0 THEN ""
        ELSE SubSeq(s, first, Len(s) + 1 - First(1, Len(s), InkedFromEnd))

\* s.startsWith(sub, i - 1), 1-based
StartsWithAt(s, sub, i) ==
    /\ i >= 1
    /\ i + Len(sub) - 1 <= Len(s)
    /\ SubSeq(s, i, i + Len(sub) - 1) = sub

StartsWith(s, sub) == StartsWithAt(s, sub, 1)

\* 1-based s.indexOf(sub, from - 1); 0 when absent
IndexOfFrom(s, sub, from) ==
    LET hits == {i \in from..(Len(s) - Len(sub) + 1) : StartsWithAt(s, sub, i)}
    IN  IF hits = {} THEN 0 ELSE SetMin(hits)

IndexOf(s, sub) == IndexOfFrom(s, sub, 1)

\* String.prototype.includes
StrIncludes(s, sub) == IndexOf(s, sub) > 0

\* s.split(sep) for a non-empty sep
RECURSIVE Split(_, _)
Split(s, sep) ==
    LET i == IndexOf(s, sep)
    IN  IF i = 0 THEN <<s>>
        ELSE <<SubSeq(s, 1, i - 1)>> \o Split(SubSeq(s, i + Len(sep), Len(s)), sep)

\* String.prototype.replace(sub, by) with a string pattern: first occurrence only
ReplaceFirst(s, sub, by) ==
    LET i == IndexOf(s, sub)
    IN  IF i = 0 THEN s
        ELSE SubSeq(s, 1, i - 1) \o by \o SubSeq(s, i + Len(sub), Len(s))

\* s.replace(/x/g, by) for a one-character pattern class
RECURSIVE ReplaceChars(_, _, _)
ReplaceChars(s, class, by) ==
    LET hits == {i \in 1..Len(s) : Char(s, i) \in class}
    IN  IF hits = {} THEN s
        ELSE LET i == SetMin(hits)
             IN  SubSeq(s, 1, i - 1) \o by
                   \o ReplaceChars(SubSeq(s, i + 1, Len(s)), class, by)

\* Array.prototype.join
RECURSIVE Join(_, _)
Join(parts, sep) ==
    IF Len(parts) = 0 THEN ""
    ELSE IF Len(parts) = 1 THEN parts[1]
    ELSE LET h == Len(parts) \div 2
         IN  Join(SubSeq(parts, 1, h), sep) \o sep
               \o Join(SubSeq(parts, h + 1, Len(parts)), sep)

\* ------------------------------------------------------------------------
\* JavaScript values held by entry fields
\* ------------------------------------------------------------------------

\* A rich-text node.  contentKind tells what node.content is: "array", "absent"
\* (undefined) or "other" (a truthy value that is not an array).
Node(nodeType, value, contentKind, content, data) ==
    [nodeType |-> nodeType, value |-> value, contentKind |-> contentKind,
     content |-> content, data |-> data]

NoData == [present |-> FALSE, uri |-> "", hasTarget |-> FALSE, targetId |-> ""]

UriData(uri) == [present |-> TRUE, uri |-> uri, hasTarget |-> FALSE, targetId |-> ""]

TargetData(id) == [present |-> TRUE, uri |-> "", hasTarget |-> TRUE, targetId |-> id]

NoNode == Node("", "", "absent", <<>>, NoData)

\* A field value: t is the JavaScript type, s the payload of a string or the
\* decimal digits of a number, arr the elements of an array (links), node the
\* rich-text object.
Undefined == [t |-> "undefined", s |-> "", arr |-> <<>>, node |-> NoNode]

StrV(s) == [t |-> "string", s |-> s, arr |-> <<>>, node |-> NoNode]

NumV(digits) == [t |-> "number", s |-> digits, arr |-> <<>>, node |-> NoNode]

ArrV(arr) == [t |-> "array", s |-> "", arr |-> arr, node |-> NoNode]

ObjV(node) == [t |-> "object", s |-> "", arr |-> <<>>, node |-> node]

\* ToBoolean
Truthy(v) ==
    CASE v.t = "undefined" -> FALSE
      [] v.t = "string" -> v.s # ""
      [] v.t = "number" -> v.s # "0"
      [] OTHER -> TRUE

\* ToString, as a template literal applies it
RECURSIVE ToStr(_)
ToStr(v) ==
    CASE v.t = "undefined" -> "undefined"
      [] v.t = "string" -> v.s
      [] v.t = "number" -> v.s
      [] v.t = "array" -> Join([i \in 1..Len(v.arr) |-> "[object Object]"], ",")
      [] OTHER -> "[object Object]"

\* a || "fallback"
OrElse(v, fallback) == IF Truthy(v) THEN v ELSE StrV(fallback)

\* A link {sys: {id}}; kind "null" is a null element, "nosys" an object
\* without sys.
Link(id) == [kind |-> "link", id |-> id]

NullLink == [kind |-> "null", id |-> ""]

NoSysLink == [kind |-> "nosys", id |-> ""]

\* A single link held directly by a field (componentImage.fields.image)
LinkV(id) == [t |-> "link", s |-> id, arr |-> <<>>, node |-> NoNode]

\* An entry or included component: sys.id, sys.contentType.sys.id, fields and
\* metadata.tags (hasTags is FALSE when metadata or metadata.tags is absent).
Entry(id, contentType, fields, hasTags, tags) ==
    [id |-> id, contentType |-> contentType, fields |-> fields,
     hasTags |-> hasTags, tags |-> tags]

\* an object without properties
NoFields == [k \in {} |-> Undefined]

\* entry.fields[key]
Field(entry, key) ==
    IF key \in DOMAIN entry.fields THEN entry.fields[key] ELSE Undefined

\* An asset: sys.id and fields (hasFields is FALSE when asset.fields is absent)
Asset(id, hasFields, fields) == [id |-> id, hasFields |-> hasFields, fields |-> fields]

\* response.includes; present is FALSE when the response has no includes,
\* hasEntry / hasAsset are FALSE when that list is absent.
Includes(present, hasEntry, entries, hasAsset, assets) ==
    [present |-> present, hasEntry |-> hasEntry, Entry |-> entries,
     hasAsset |-> hasAsset, Asset |-> assets]

\* includes?.Entry?.find((e) => e.sys.id === id)
FindEntry(includes, id) ==
    LET list == IF includes.present /\ includes.hasEntry THEN includes.Entry ELSE <<>>
        hits == {i \in 1..Len(list) : list[i].id = id}
    IN  IF hits = {} THEN [found |-> FALSE, entry |-> Entry("", "", NoFields, FALSE, <<>>)]
        ELSE [found |-> TRUE, entry |-> list[SetMin(hits)]]

\* includes?.Asset?.find((a) => a.sys.id === id)
FindAsset(includes, id) ==
    LET list == IF includes.present /\ includes.hasAsset THEN includes.Asset ELSE <<>>
        hits == {i \in 1..Len(list) : list[i].id = id}
    IN  IF hits = {} THEN [found |-> FALSE, asset |-> Asset("", FALSE, NoFields)]
        ELSE [found |-> TRUE, asset |-> list[SetMin(hits)]]

\* ------------------------------------------------------------------------
\* utils.ts: the content renderer.  A call returns [thrown, out]: thrown is
\* TRUE when the call ends in an exception, out is the returned string.
\* ------------------------------------------------------------------------

Ok(out) == [thrown |-> FALSE, out |-> out]

Thrown == [thrown |-> TRUE, out |-> ""]

RECURSIVE getTextFromNode(_)
RECURSIVE getTextFromNodes(_)
getTextFromNodes(nodes) ==
    IF Len(nodes) = 0 THEN ""
    ELSE getTextFromNode(Head(nodes)) \o getTextFromNodes(Tail(nodes))

getTextFromNode(node) ==
    IF node = NoNode THEN ""
    ELSE IF node.nodeType = "text" THEN node.value
    ELSE IF node.contentKind = "array" THEN getTextFromNodes(node.content)
    ELSE ""

\* `[Image: ${asset.fields.description || asset.fields.title || ""}]\n\n`
ImagePlaceholder(asset) ==
    LET d == IF "description" \in DOMAIN asset.fields
             THEN asset.fields["description"] ELSE Undefined
        t == IF "title" \in DOMAIN asset.fields
             THEN asset.fields["title"] ELSE Undefined
        v == IF Truthy(d) THEN d ELSE IF Truthy(t) THEN t ELSE StrV("")
    IN  "[Image: " \o ToStr(v) \o "]\n\n"

\* a bug: the pipes of the cell text are kept
CellTextKeepsPipes(cell) == Trim(getTextFromNode(cell))

\* getTextFromNode(cell).trim().replace(/\|/g, "-")
CellText(cell) == ReplaceChars(Trim(getTextFromNode(cell)), {"|"}, "-")

\* a bug: the cells are joined without the spaces around the pipes
TableLineTight(texts) == "|" \o Join(texts, "|") \o "|\n"

\* `| ${texts.join(" | ")} |\n`
TableLine(texts) == "| " \o Join(texts, " | ") \o " |\n"

\* The data rows of a table, node.content.slice(1).forEach(...): the text
\* appended so far, and whether a row raised.
RECURSIVE TableRows(_)
TableRows(rows) ==
    IF Len(rows) = 0 THEN Ok("")
    ELSE LET row == Head(rows)
         IN  IF row = NoNode \/ row.contentKind = "absent"
             THEN TableRows(Tail(rows))
             ELSE IF row.contentKind # "array"
             THEN Thrown
             ELSE LET line == TableLine([i \in 1..Len(row.content) |->
                                           CellText(row.content[i])])
                      rest == TableRows(Tail(rows))
                  IN  [thrown |-> rest.thrown, out |-> line \o rest.out]

\* case "table": the try/catch keeps whatever was appended before a raise
RenderTable(node) ==
    IF node.contentKind # "array" \/ Len(node.content) = 0
    THEN ""
    ELSE LET first == node.content[1]
         IN  IF first = NoNode \/ first.contentKind # "array"
             THEN ""
             ELSE LET headerTexts == [i \in 1..Len(first.content) |->
                                        CellText(first.content[i])]
                      head == TableLine(headerTexts)
                                \o TableLine([i \in 1..Len(headerTexts) |-> "---"])
                      rows == TableRows(Tail(node.content))
                  IN  IF rows.thrown THEN head \o rows.out
                      ELSE head \o rows.out \o "\n"

RECURSIVE ListItems(_)

\* a bug: the items of a list are marked with a dash
ListItemsDashed(listItems) ==
    IF Len(listItems) = 0 THEN ""
    ELSE (IF Head(listItems) = NoNode THEN ""
          ELSE "- " \o getTextFromNode(Head(listItems)) \o "\n")
           \o ListItems(Tail(listItems))

\* case "unordered-list" / "ordered-list"
ListItems(listItems) ==
    IF Len(listItems) = 0 THEN ""
    ELSE (IF Head(listItems) = NoNode THEN ""
          ELSE "* " \o getTextFromNode(Head(listItems)) \o "\n")
           \o ListItems(Tail(listItems))

\* content += ...: a raise in either part leaves the walk
Appended(first, rest) ==
    IF first.thrown \/ rest.thrown THEN Thrown ELSE Ok(first.out \o rest.out)

\* a bug: the line that closes the component is left out
HeadAndBodyUnclosed(head, body) ==
    IF body.thrown THEN head ELSE head \o body.out

\* try { content += head; content += renderRichTextForLLM(...) + "\n" } catch {}
\* return content
HeadAndBody(head, body) ==
    IF body.thrown THEN head ELSE head \o body.out \o "\n"

RECURSIVE renderComponent(_, _)
RECURSIVE renderRichTextForLLM(_, _)
RECURSIVE renderNode(_, _)
RECURSIVE renderNodes(_, _)
RECURSIVE renderTabs(_, _)
RECURSIVE EmbeddedEntry(_, _)

\* richTextDocument.content.forEach(renderNode): the first raise ends the walk
renderNodes(nodes, includes) ==
    IF Len(nodes) = 0 THEN Ok("")
    ELSE Appended(renderNode(Head(nodes), includes),
                  renderNodes(Tail(nodes), includes))

\* a bug: a target that is not found leaves a mark in the text
EmbeddedEntryMarksMissing(node, includes) ==
    IF node.data.present /\ node.data.hasTarget /\ FindEntry(includes, node.data.targetId).found
    THEN renderComponent(FindEntry(includes, node.data.targetId).entry, includes)
    ELSE "[missing entry]"

\* case "embedded-entry-inline" / "embedded-entry-block": the component of
\* the target when the includes have it
EmbeddedEntry(node, includes) ==
    IF node.data.present /\ node.data.hasTarget
    THEN LET embeddedEntry == FindEntry(includes, node.data.targetId)
         IN  IF embeddedEntry.found
             THEN renderComponent(embeddedEntry.entry, includes)
             ELSE ""
    ELSE ""

renderNode(node, includes) ==
    IF node = NoNode THEN Ok("")
    ELSE CASE node.nodeType = "paragraph" -> Ok(getTextFromNode(node) \o "\n\n")
           [] node.nodeType = "heading-1" -> Ok("# " \o getTextFromNode(node) \o "\n\n")
           [] node.nodeType = "heading-2" -> Ok("## " \o getTextFromNode(node) \o "\n\n")
           [] node.nodeType = "heading-3" -> Ok("### " \o getTextFromNode(node) \o "\n\n")
           [] node.nodeType \in {"unordered-list", "ordered-list"} ->
                IF node.contentKind # "array" THEN Thrown
                ELSE Ok(ListItems(node.content) \o "\n")
           [] node.nodeType = "hyperlink" ->
                IF ~node.data.present THEN Thrown
                ELSE Ok("[" \o getTextFromNode(node) \o "](" \o node.data.uri \o ")\n")
           [] node.nodeType = "table" -> Ok(RenderTable(node))
           [] node.nodeType = "hr" -> Ok("---\n\n")
           [] node.nodeType \in {"embedded-entry-inline", "embedded-entry-block"} ->
                Ok(EmbeddedEntry(node, includes))
           [] node.nodeType = "embedded-asset-block" ->
                IF node.data.present /\ node.data.hasTarget
                THEN LET a == FindAsset(includes, node.data.targetId)
                     IN  IF a.found /\ a.asset.hasFields
                         THEN Ok(ImagePlaceholder(a.asset))
                         ELSE Ok("")
                ELSE Ok("")
           [] OTHER ->
                IF node.contentKind = "array" THEN renderNodes(node.content, includes)
                ELSE Ok("")

\* renderRichTextForLLM(richTextDocument, includes), given the field value
renderRichTextForLLM(richTextDocument, includes) ==
    IF richTextDocument.t # "object" \/ richTextDocument.node.contentKind = "absent"
    THEN Ok("")
    ELSE IF richTextDocument.node.contentKind # "array" THEN Thrown
    ELSE renderNodes(richTextDocument.node.content, includes)

\* a bug: the loop over the tabs ends at the first tab it cannot resolve
renderTabsStopsAtUnresolved(tabs, includes) ==
    IF Len(tabs) = 0 THEN ""
    ELSE IF Head(tabs).kind = "link" /\ FindEntry(includes, Head(tabs).id).found
    THEN renderComponent(FindEntry(includes, Head(tabs).id).entry, includes)
           \o renderTabs(Tail(tabs), includes)
    ELSE ""

\* case "componentTabs": the loop over component.fields.tabs
renderTabs(tabs, includes) ==
    IF Len(tabs) = 0 THEN ""
    ELSE LET tabLink == Head(tabs)
             tabEntry == FindEntry(includes, tabLink.id)
         IN  (IF tabLink.kind = "link" /\ tabEntry.found
              THEN renderComponent(tabEntry.entry, includes)
              ELSE "")
               \o renderTabs(Tail(tabs), includes)

\* renderComponent never raises: its try/catch returns the content built so far
renderComponent(component, includes) ==
    CASE component.contentType = "componentAccordion" ->
           HeadAndBody("## " \o ToStr(OrElse(Field(component, "title"), "")) \o "\n\n",
                       renderRichTextForLLM(Field(component, "body"), includes))
      [] component.contentType = "componentTabs" ->
           LET tabs == Field(component, "tabs")
           IN  IF tabs.t = "array" THEN renderTabs(tabs.arr, includes) ELSE ""
      [] component.contentType = "componentText" ->
           HeadAndBody("### " \o ToStr(OrElse(Field(component, "title"), "")) \o "\n\n",
                       renderRichTextForLLM(Field(component, "text"), includes))
      [] component.contentType = "componentImage" ->
           LET imageLink == Field(component, "image")
               a == FindAsset(includes, imageLink.s)
           IN  IF imageLink.t = "link" /\ a.found /\ a.asset.hasFields
               THEN ImagePlaceholder(a.asset)
               ELSE ""
      [] OTHER -> ""

RECURSIVE AssembleModules(_, _)

\* a bug: the loop over the modules ends at the first reference it skips
AssembleModulesStopsAtSkipped(links, includes) ==
    IF Len(links) = 0 THEN ""
    ELSE IF Head(links).kind = "link" /\ FindEntry(includes, Head(links).id).found
    THEN renderComponent(FindEntry(includes, Head(links).id).entry, includes)
           \o AssembleModules(Tail(links), includes)
    ELSE ""

\* for (const moduleLink of mainContentField) { try { ... } catch { ... } }
AssembleModules(links, includes) ==
    IF Len(links) = 0 THEN ""
    ELSE LET moduleLink == Head(links)
             componentEntry == FindEntry(includes, moduleLink.id)
         IN  (IF moduleLink.kind = "link" /\ componentEntry.found
              THEN renderComponent(componentEntry.entry, includes)
              ELSE "")
               \o AssembleModules(Tail(links), includes)

IsDocument(v) == v.t = "object" /\ v.node.nodeType = "document"

\* the main content: the modules of a modular page, or a rich-text document
MainContent(mainContentField, includes) ==
    IF mainContentField.t = "array"
    THEN Ok(AssembleModules(mainContentField.arr, includes))
    ELSE IF IsDocument(mainContentField)
    THEN renderRichTextForLLM(mainContentField, includes)
    ELSE Ok("")

\* a bug: any object in the sidebar field is taken for a document
SidebarContentOfAnyObject(sidebarContentField, includes) ==
    IF sidebarContentField.t = "object"
    THEN Appended(Ok("\n## Sidebar Content\n\n"),
                  renderRichTextForLLM(sidebarContentField, includes))
    ELSE Ok("")

\* the sidebar, when the entry has one
SidebarContent(sidebarContentField, includes) ==
    IF IsDocument(sidebarContentField)
    THEN Appended(Ok("\n## Sidebar Content\n\n"),
                  renderRichTextForLLM(sidebarContentField, includes))
    ELSE Ok("")

assembleContentFromEntry(item, modulesFieldId, includes) ==
    Appended(MainContent(Field(item, modulesFieldId), includes),
             SidebarContent(Field(item, "sidebarContent"), includes))

\* ------------------------------------------------------------------------
\* RecursiveCharacterTextSplitter of @langchain/textsplitters, as
\* chunkWithRecursiveSplitter configures it: separators "\n\n", "\n", " ", ""
\* and keepSeparator = true.
\* ------------------------------------------------------------------------

Separators == <<"\n\n", "\n", " ", "">>

\* The TextSplitter constructor raises "Cannot have chunkOverlap >= chunkSize"
SplitterConstructorThrows(chunkSize, chunkOverlap) == chunkOverlap >= chunkSize

\* text.split(new RegExp(`(?=${separator})`)): a cut before every occurrence of
\* the separator except one at the very start; text.split("") for "".
\* the pieces of text that start at the indices `cuts` (ascending, the first 1)
PiecesAt(text, cuts) ==
    [k \in 1..Len(cuts) |->
        SubSeq(text, cuts[k], IF k < Len(cuts) THEN cuts[k + 1] - 1 ELSE Len(text))]

\* the elements of a set of numbers in ascending order
RECURSIVE Ascending(_)
Ascending(S) ==
    IF S = {} THEN <<>> ELSE <<SetMin(S)>> \o Ascending(S \ {SetMin(S)})

SplitKeep(text, separator) ==
    PiecesAt(text, <<1>> \o Ascending({i \in 2..(Len(text) - Len(separator) + 1) :
                                          StartsWithAt(text, separator, i)}))

splitOnSeparator(text, separator) ==
    IF text = "" THEN <<>>
    ELSE IF separator = "" THEN [i \in 1..Len(text) |-> Char(text, i)]
    ELSE SplitKeep(text, separator)

\* joinDocs: null (here an empty sequence) when the joined text trims to ""
joinDocs(docs, separator) ==
    LET text == Trim(Join(docs, separator))
    IN  IF text = "" THEN <<>> ELSE <<text>>

\* the while loop of mergeSplits that drops leading pieces of currentDoc
RECURSIVE PopDocs(_, _, _, _, _, _)
PopDocs(currentDoc, total, len, sepLen, chunkSize, chunkOverlap) ==
    IF total > chunkOverlap
         \/ (total + len + Len(currentDoc) * sepLen > chunkSize /\ total > 0)
    THEN PopDocs(Tail(currentDoc), total - Len(Head(currentDoc)), len, sepLen,
                 chunkSize, chunkOverlap)
    ELSE [currentDoc |-> currentDoc, total |-> total]

\* one iteration of the for loop of mergeSplits, on piece d; st holds docs,
\* currentDoc and total
MergeStep(st, d, separator, chunkSize, chunkOverlap) ==
    LET len == Len(d)
        over == st.total + len + Len(st.currentDoc) * Len(separator) > chunkSize
        flush == over /\ Len(st.currentDoc) > 0
        kept == IF flush
                THEN PopDocs(st.currentDoc, st.total, len, Len(separator),
                             chunkSize, chunkOverlap)
                ELSE [currentDoc |-> st.currentDoc, total |-> st.total]
    IN  [docs |-> IF flush THEN st.docs \o joinDocs(st.currentDoc, separator)
                  ELSE st.docs,
         currentDoc |-> Append(kept.currentDoc, d),
         total |-> kept.total + len]

\* the for loop of mergeSplits over the pieces lo..hi, first half then second
RECURSIVE MergeFrom(_, _, _, _, _, _, _)
MergeFrom(splits, lo, hi, st, separator, chunkSize, chunkOverlap) ==
    IF lo > hi THEN st
    ELSE IF lo = hi
    THEN MergeStep(st, splits[lo], separator, chunkSize, chunkOverlap)
    ELSE LET mid == (lo + hi) \div 2
             half == MergeFrom(splits, lo, mid, st, separator, chunkSize, chunkOverlap)
         IN  \* the first half has run (its total is known) when the second starts
             IF half.total >= 0
             THEN MergeFrom(splits, mid + 1, hi, half, separator, chunkSize,
                            chunkOverlap)
             ELSE half

mergeSplits(splits, separator, chunkSize, chunkOverlap) ==
    LET st == MergeFrom(splits, 1, Len(splits),
                        [docs |-> <<>>, currentDoc |-> <<>>, total |-> 0],
                        separator, chunkSize, chunkOverlap)
    IN  st.docs \o joinDocs(st.currentDoc, separator)

\* the separator _splitText picks: the first that is "" or occurs in the text
PickSeparator(text, separators) ==
    LET Fits(i) == separators[i] = "" \/ StrIncludes(text, separators[i])
        first == First(1, Len(separators), Fits)
    IN  IF first = 0 THEN Len(separators) ELSE first

RECURSIVE SplitTextWith(_, _, _, _)
RECURSIVE SplitPieces(_, _, _, _, _, _, _)

\* the loop of _splitText over the pieces from i on, goodSplits being the
\* short pieces collected since the last flush: the short pieces up to the
\* next long one are collected, then the long one is handled
SplitPieces(splits, i, goodSplits, newSeparators, hasNew, chunkSize, chunkOverlap) ==
    LET IsLong(j) == Len(splits[j]) >= chunkSize
        long == First(i, Len(splits), IsLong)
        good == goodSplits \o SubSeq(splits, i, IF long = 0 THEN Len(splits)
                                                ELSE long - 1)
        merged == IF Len(good) > 0
                  THEN mergeSplits(good, "", chunkSize, chunkOverlap)
                  ELSE <<>>
    IN  IF long = 0 THEN merged
        ELSE merged
               \o (IF ~hasNew THEN <<splits[long]>>
                   ELSE SplitTextWith(splits[long], newSeparators, chunkSize,
                                      chunkOverlap))
               \o SplitPieces(splits, long + 1, <<>>, newSeparators, hasNew,
                              chunkSize, chunkOverlap)

\* _splitText(text, separators)
SplitTextWith(text, separators, chunkSize, chunkOverlap) ==
    LET k == PickSeparator(text, separators)
        separator == separators[k]
        hasNew == separator # ""
        newSeparators == SubSeq(separators, k + 1, Len(separators))
    IN  SplitPieces(splitOnSeparator(text, separator), 1, <<>>, newSeparators,
                    hasNew, chunkSize, chunkOverlap)

\* splitText(text)
splitText(text, chunkSize, chunkOverlap) ==
    SplitTextWith(text, Separators, chunkSize, chunkOverlap)

\* ------------------------------------------------------------------------
\* utils.ts: chunkWithRecursiveSplitter
\* ------------------------------------------------------------------------

MAX_CHUNK_SIZE == 2000

CHUNK_OVERLAP == 100

\* A call returns [thrown, chunks]
ChunksOk(chunks) == [thrown |-> FALSE, chunks |-> chunks]

ChunksThrown == [thrown |-> TRUE, chunks |-> <<>>]

\* chunks.map((chunk) => `${textPrefix}${chunk}`)
WithPrefix(textPrefix, chunks) == [i \in 1..Len(chunks) |-> textPrefix \o chunks[i]]

chunkWithRecursiveSplitter(fullText, textPrefix) ==
    IF Trim(fullText) = "" THEN ChunksOk(<<>>)
    ELSE LET chunkSize == MAX_CHUNK_SIZE - Len(textPrefix)
         IN  IF SplitterConstructorThrows(chunkSize, CHUNK_OVERLAP) THEN ChunksThrown
             ELSE ChunksOk(WithPrefix(textPrefix,
                                      splitText(fullText, chunkSize, CHUNK_OVERLAP)))

\* ------------------------------------------------------------------------
\* JSON.parse, for texts without escape sequences, and the zod schema
\* z.object({ chunks: z.array(z.string()) })
\* ------------------------------------------------------------------------

\* A parsed value: t is "string", "number", "literal" (true, false, null),
\* "array" (items) or "object" (keys and, in the same order, items).
JsonScalar(t, s) == [t |-> t, s |-> s, keys |-> <<>>, items |-> <<>>]

JsonArray(elements) == [t |-> "array", s |-> "", keys |-> <<>>, items |-> elements]

JsonObject(keys, elements) == [t |-> "object", s |-> "", keys |-> keys, items |-> elements]

\* A parse step returns [ok, v, next]: the value and the index after it
ParseFail == [ok |-> FALSE, v |-> JsonScalar("literal", "null"), next |-> 0]

ParseOk(v, next) == [ok |-> TRUE, v |-> v, next |-> next]

\* the first index >= i that holds no JSON whitespace (Len(s) + 1 at the end)
SkipWs(s, i) ==
    LET Inked(j) == Char(s, j) \notin WhiteSpace
        first == First(i, Len(s), Inked)
    IN  IF first = 0 THEN Len(s) + 1 ELSE first

Digits == {"0", "1", "2", "3", "4", "5", "6", "7", "8", "9"}

ControlChars == {"\n", "\t", "\r"}

\* a string literal starting at the quote at index i
ParseString(s, i) ==
    LET close == IndexOfFrom(s, "\"", i + 1)
        body == SubSeq(s, i + 1, close - 1)
    IN  IF close = 0 THEN ParseFail
        ELSE IF \E j \in 1..Len(body) : Char(body, j) \in ControlChars \cup {"\\"}
        THEN ParseFail
        ELSE ParseOk(JsonScalar("string", body), close + 1)

\* an integer literal starting at index i
ParseNumber(s, i) ==
    LET stop == {j \in i..Len(s) : Char(s, j) \notin Digits}
        end == IF stop = {} THEN Len(s) + 1 ELSE SetMin(stop)
    IN  IF end > i + 1 /\ Char(s, i) = "0" THEN ParseFail
        ELSE ParseOk(JsonScalar("number", SubSeq(s, i, end - 1)), end)

RECURSIVE ParseValue(_, _)
RECURSIVE ParseElements(_, _, _)
RECURSIVE ParseMembers(_, _, _, _)

\* after the elements `items`, at index j: a comma, or the closing bracket
ElementsNext(s, j, elements) ==
    IF Char(s, j) = "," THEN ParseElements(s, j + 1, elements)
    ELSE IF Char(s, j) = "]" THEN ParseOk(JsonArray(elements), j + 1)
    ELSE ParseFail

\* the element e was read after the elements `items`
ElementRead(s, e, elements) ==
    IF ~e.ok THEN ParseFail
    ELSE ElementsNext(s, SkipWs(s, e.next), Append(elements, e.v))

\* after the members, at index j: a comma, or the closing brace
MembersNext(s, j, keys, elements) ==
    IF Char(s, j) = "," THEN ParseMembers(s, j + 1, keys, elements)
    ELSE IF Char(s, j) = "}" THEN ParseOk(JsonObject(keys, elements), j + 1)
    ELSE ParseFail

\* the value e of the member `key` was read
MemberRead(s, key, e, keys, elements) ==
    IF ~e.ok THEN ParseFail
    ELSE MembersNext(s, SkipWs(s, e.next), Append(keys, key), Append(elements, e.v))

\* the name of a member was read: the colon and the value follow
MemberNameRead(s, key, colon, keys, elements) ==
    IF ~key.ok \/ Char(s, colon) # ":" THEN ParseFail
    ELSE MemberRead(s, key.v.s, ParseValue(s, colon + 1), keys, elements)

\* the name of a member, read at index k
MemberName(s, k, key, keys, elements) ==
    MemberNameRead(s, key, SkipWs(s, key.next), keys, elements)

\* the elements of an array after "[" or ",", up to the closing bracket
ParseElements(s, i, elements) == ElementRead(s, ParseValue(s, i), elements)

\* the members of an object after "{" or ",", up to the closing brace
ParseMembers(s, i, keys, elements) ==
    LET k == SkipWs(s, i)
    IN  MemberName(s, k,
                   IF Char(s, k) = "\"" THEN ParseString(s, k) ELSE ParseFail,
                   keys, elements)

\* a value starting at or after index i
ParseValue(s, i) ==
    LET j == SkipWs(s, i)
        c == Char(s, j)
    IN  CASE c = "\"" -> ParseString(s, j)
          [] c = "[" ->
               IF Char(s, SkipWs(s, j + 1)) = "]"
               THEN ParseOk(JsonArray(<<>>), SkipWs(s, j + 1) + 1)
               ELSE ParseElements(s, j + 1, <<>>)
          [] c = "{" ->
               IF Char(s, SkipWs(s, j + 1)) = "}"
               THEN ParseOk(JsonObject(<<>>, <<>>), SkipWs(s, j + 1) + 1)
               ELSE ParseMembers(s, j + 1, <<>>, <<>>)
          [] c \in Digits -> ParseNumber(s, j)
          [] StartsWithAt(s, "true", j) -> ParseOk(JsonScalar("literal", "true"), j + 4)
          [] StartsWithAt(s, "false", j) -> ParseOk(JsonScalar("literal", "false"), j + 5)
          [] StartsWithAt(s, "null", j) -> ParseOk(JsonScalar("literal", "null"), j + 4)
          [] OTHER -> ParseFail

\* JSON.parse(text): [ok, v]; ok is FALSE when it raises a SyntaxError
WholeText(text, r) ==
    IF r.ok /\ SkipWs(text, r.next) = Len(text) + 1
    THEN [ok |-> TRUE, v |-> r.v]
    ELSE [ok |-> FALSE, v |-> ParseFail.v]

JsonParse(text) == WholeText(text, ParseValue(text, 1))

\* obj[key] of a parsed object: the last member of that name
JsonGet(obj, key) ==
    LET hits == {i \in 1..Len(obj.keys) : obj.keys[i] = key}
    IN  IF hits = {} THEN [found |-> FALSE, v |-> ParseFail.v]
        ELSE [found |-> TRUE, v |-> obj.items[SetMax(hits)]]

\* LlmChunkResponseSchema.safeParse(parsedJson): [success, chunks]
LlmChunkResponseSchema(parsedJson) ==
    LET chunks == JsonGet(parsedJson, "chunks")
        success == /\ parsedJson.t = "object"
                   /\ chunks.found
                   /\ chunks.v.t = "array"
                   /\ \A i \in 1..Len(chunks.v.items) : chunks.v.items[i].t = "string"
    IN  [success |-> success,
         chunks |-> IF success
                    THEN [i \in 1..Len(chunks.v.items) |-> chunks.v.items[i].s]
                    ELSE <<>>]

\* the Markdown fence (three grave accents), see the note at the top
FENCE == "'''"

FENCE_JSON == FENCE \o "json"

\* importUnstructured: from the completion content to the chunk strings.
\* llmContent is the value of llmResponse.data.choices?.[0]?.message?.content.
\* let jsonString = llmContent; if (jsonString.includes(fence + "json")) { ... }
JsonStringOf(text) ==
    IF StrIncludes(text, FENCE_JSON)
    THEN Trim(Split(Split(text, FENCE_JSON)[2], FENCE)[1])
    ELSE text

\* a bug: the result of the validation is not looked at
ValidatedChunksUnchecked(validationResult, chunkPrefix) ==
    ChunksOk(WithPrefix(chunkPrefix, validationResult.chunks))

\* if (!validationResult.success) throw ...; chunks.map(chunk => prefix + chunk)
ValidatedChunks(validationResult, chunkPrefix) ==
    IF ~validationResult.success THEN ChunksThrown
    ELSE ChunksOk(WithPrefix(chunkPrefix, validationResult.chunks))

\* const parsedJson = JSON.parse(jsonString); safeParse(parsedJson)
ParsedChunks(parsedJson, chunkPrefix) ==
    IF ~parsedJson.ok THEN ChunksThrown
    ELSE ValidatedChunks(LlmChunkResponseSchema(parsedJson.v), chunkPrefix)

LlmChunkStrings(llmContent, chunkPrefix) ==
    IF ~Truthy(llmContent) THEN ChunksThrown
    ELSE ParsedChunks(JsonParse(JsonStringOf(ToStr(llmContent))), chunkPrefix)

\* ------------------------------------------------------------------------
\* The import connectors: configuration
\* ------------------------------------------------------------------------

\* The four connectors, each in its field-based and its tag-based version
\* (import-all has the field-based version only).
Connectors ==
    {<<"importAll", "field">>,
     <<"importByMainTopic", "field">>, <<"importByMainTopic", "tag">>,
     <<"importBySubTopic", "field">>, <<"importBySubTopic", "tag">>,
     <<"importUnstructured", "field">>, <<"importUnstructured", "tag">>}

\* the hard-coded field ids and the field defaults of the forms
MAIN_TOPIC_FIELD_ID == "mainTopic"

SUB_TOPIC_FIELD_ID == "knowledgeGroup"

contentTypeId == "article"

titleFieldId == "title"

modulesFieldId == "body"

\* A configuration; "" stands for a value that is missing.  A connector
\* reads only its own fields, the others stay "".
Config(connector, version, spaceId, accessToken, mainTopic, subTopic, chunkingStrategy, apiKey, endpointUrl) ==
    [connector |-> connector, version |-> version, spaceId |-> spaceId,
     accessToken |-> accessToken, mainTopic |-> mainTopic, subTopic |-> subTopic,
     chunkingStrategy |-> chunkingStrategy, apiKey |-> apiKey,
     endpointUrl |-> endpointUrl]

Configs ==
    {Config(k[1], k[2], s, a, m, t, st, key, url) :
        k \in Connectors, s \in {"", "space"}, a \in {"", "token"},
        m \in {"", "topic:Internet"}, t \in {"", "group:WiFi"},
        st \in {"recursive", "llm"}, key \in {"", "key"},
        url \in {"", "https://llm"}}

\* the fields a connector's form has
ReadsMainTopic(c) == c.connector \in {"importByMainTopic", "importBySubTopic"}

ReadsSubTopic(c) == c.connector = "importBySubTopic"

ReadsStrategy(c) == c.connector = "importUnstructured"

WellFormedConfig(c) ==
    /\ ReadsMainTopic(c) \/ c.mainTopic = ""
    /\ ReadsSubTopic(c) \/ c.subTopic = ""
    /\ ReadsStrategy(c) \/ c.chunkingStrategy = "recursive"
    /\ (ReadsStrategy(c) /\ c.chunkingStrategy = "llm") \/ (c.apiKey = "" /\ c.endpointUrl = "")

\* a bug: the LLM strategy is let through without API key or endpoint URL
ConfigCheckThrowsSkipsLlm(c) ==
    \/ c.spaceId = "" \/ c.accessToken = ""
    \/ c.connector = "importByMainTopic" /\ c.mainTopic = ""
    \/ c.connector = "importBySubTopic" /\ (c.mainTopic = "" \/ c.subTopic = "")

\* the checks before the try block: TRUE when one of them throws
ConfigCheckThrows(c) ==
    \/ c.spaceId = "" \/ c.accessToken = ""
    \/ c.connector = "importByMainTopic" /\ c.mainTopic = ""
    \/ c.connector = "importBySubTopic" /\ (c.mainTopic = "" \/ c.subTopic = "")
    \/ /\ c.connector = "importUnstructured"
       /\ c.chunkingStrategy = "llm"
       /\ (c.apiKey = "" \/ c.endpointUrl = "")

\* ------------------------------------------------------------------------
\* fetchWithRetry: fetch-retry with retries 3 on the listed statuses
\* ------------------------------------------------------------------------

FETCH_RETRIES == 3

RetryOn == {408, 429, 500, 502, 503, 504}

\* What one attempt can end in: a network error, or a response with a status
\* (and, for 200, a body that parses as JSON or does not).
AttemptOutcomes == {"network", "500", "404", "204", "200-bad-json", "200"}

AttemptStatus(o) ==
    CASE o = "500" -> 500
      [] o = "404" -> 404
      [] o = "204" -> 204
      [] OTHER -> 200

\* fetch-retry tries again after a network error or a status of retryOn, while
\* attempts are left
Retries(o, tries) ==
    /\ tries < FETCH_RETRIES
    /\ o = "network" \/ (o # "network" /\ AttemptStatus(o) \in RetryOn)

\* a bug: the status of the response is not looked at
FetchThrowsIgnoresStatus(o) ==
    \/ o = "network"
    \/ o = "200-bad-json"

\* fetchWithRetry throws: the network error, !response.ok, or the JSON error
FetchThrows(o) ==
    \/ o = "network"
    \/ AttemptStatus(o) < 200 \/ AttemptStatus(o) > 299
    \/ o = "200-bad-json"

\* ------------------------------------------------------------------------
\* The flow nodes: what a storage key holds
\* ------------------------------------------------------------------------

\* the one key the sample configurations name (the default of the fields)
STORE_KEY == "contentful.entries"

\* A stored value: t is its JavaScript type, error its error property ("" when
\* it has none).
Absent == [t |-> "undefined", error |-> ""]

NullData == [t |-> "null", error |-> ""]

ZeroData == [t |-> "number", error |-> ""]

ResponseData == [t |-> "object", error |-> ""]

ErrorData(message) == [t |-> "object", error |-> message]

\* a bug: an error object counts as cached data
UsableIgnoresError(existingData) == existingData.t = "object"

\* existingData && !existingData.error
Usable(existingData) ==
    /\ existingData.t = "object"
    /\ existingData.error = ""

\* cognigy.context[key], cognigy.input[key]
Stored(store, key) == IF key \in DOMAIN store THEN store[key] ELSE Absent

\* The versions of the nodes: the ones with the Execution & Caching section
\* fetch with the configured timeout and retries, the others with the
\* fetchData of node-utils ("simple") or of knowledge/utils ("utils").
FlowNodes ==
    << [type |-> "getEntriesByType", caching |-> TRUE, fetcher |-> "options"],
       [type |-> "getEntriesByType", caching |-> FALSE, fetcher |-> "simple"],
       [type |-> "getSingleEntry", caching |-> TRUE, fetcher |-> "options"],
       [type |-> "getSingleEntry", caching |-> FALSE, fetcher |-> "utils"],
       [type |-> "searchEntries", caching |-> TRUE, fetcher |-> "options"],
       [type |-> "searchEntries", caching |-> FALSE, fetcher |-> "utils"] >>

\* the most retryAttempts a sample configuration asks for
MaxRetryAttempts == 1

\* the timeout of the sample configurations, in ms (the default of the field)
NODE_TIMEOUT == "8000"

\* What one attempt of a node's fetch can end in: the outcomes of an attempt
\* and, where the fetch has a timeout, the abort of the request.
NodeOutcomes(fetcher) ==
    IF fetcher = "options" THEN AttemptOutcomes \cup {"abort"} ELSE AttemptOutcomes

\* fetch-retry tries again after a network error or a status of retryOn, while
\* attempts are left; an aborted request fails every later attempt at once
NodeRetries(retries, o, tries) ==
    /\ tries < retries
    /\ o # "abort"
    /\ o = "network" \/ AttemptStatus(o) \in RetryOn

StatusText(o) ==
    CASE o = "500" -> "500: Internal Server Error"
      [] o = "404" -> "404: Not Found"
      [] OTHER -> ""

\* the message of the error fetchData throws
ErrorMessage(fetcher, o) ==
    CASE o = "abort" -> "Request timed out after " \o NODE_TIMEOUT \o "ms"
      [] o = "network" -> "fetch failed"
      [] o = "200-bad-json" ->
            IF fetcher = "utils" THEN "Failed to parse JSON response from url"
            ELSE "Unexpected end of JSON input"
      [] OTHER ->
            "HTTP " \o StatusText(o) \o (IF fetcher = "utils" THEN " - url" ELSE "")

\* fetchData: [thrown, message, data]
fetchData(fetcher, o) ==
    IF o = "abort" \/ FetchThrows(o)
    THEN [thrown |-> TRUE, message |-> ErrorMessage(fetcher, o), data |-> Absent]
    ELSE [thrown |-> FALSE, message |-> "",
          data |-> IF o = "204" THEN NullData ELSE ResponseData]

\* no call of fetchData has ended
NotFetched == [thrown |-> FALSE, message |-> "", data |-> Absent]

\* addToStorage: the calls of api.addToContext / api.addToInput it makes
addToStorage(storeLocation, contextKey, inputKey, data) ==
    LET storeKey == IF storeLocation = "context" THEN contextKey ELSE inputKey
    IN  IF storeKey = "" THEN <<>>
        ELSE IF storeLocation \in {"context", "input"}
        THEN <<[to |-> storeLocation, key |-> storeKey, data |-> data]>>
        ELSE <<>>

\* a store after the calls made on it
RECURSIVE AfterWrites(_, _, _)
AfterWrites(store, to, writes) ==
    IF Len(writes) = 0 THEN store
    ELSE LET w == Head(writes)
             next == IF w.to = to
                     THEN [k \in DOMAIN store \cup {w.key} |->
                             IF k = w.key THEN w.data ELSE store[k]]
                     ELSE store
         IN  AfterWrites(next, to, Tail(writes))

\* the execution after addToStorage was called with data
WithStored(f, data) ==
    LET writes == addToStorage(f.storeLocation, f.contextKey, f.inputKey, data)
    IN  [f EXCEPT !.stage = "done",
                  !.result = "returned",
                  !.writes = f.writes \o writes,
                  !.context = AfterWrites(f.context, "context", writes),
                  !.input = AfterWrites(f.input, "input", writes)]

\* a bug: no catch around the fetch, a failure leaves the node
SettledUncaught(f, fetched) ==
    IF fetched.thrown THEN [f EXCEPT !.stage = "done", !.result = "threw"]
    ELSE WithStored(f, fetched.data)

\* try { addToStorage(response) } catch (error) { addToStorage({error}) }
Settled(f, fetched) ==
    IF fetched.thrown THEN WithStored(f, ErrorData(fetched.message))
    ELSE WithStored(f, fetched.data)

\* ------------------------------------------------------------------------
\* The import connectors: grouping, naming and the per-entry work
\* ------------------------------------------------------------------------

\* getTagByPrefix(entry, prefix): [found, id]
getTagByPrefix(entry, prefix) ==
    LET hits == {i \in 1..Len(entry.tags) : StartsWith(entry.tags[i], prefix)}
    IN  IF ~entry.hasTags \/ hits = {} THEN [found |-> FALSE, id |-> ""]
        ELSE [found |-> TRUE, id |-> entry.tags[SetMin(hits)]]

\* the key an entry is grouped under
GroupNameOf(c, entry) ==
    IF c.version = "field"
    THEN OrElse(Field(entry, SUB_TOPIC_FIELD_ID), "Uncategorized")
    ELSE LET fullTag == getTagByPrefix(entry, "group:")
         IN  IF fullTag.found /\ fullTag.id # ""
             THEN StrV(ReplaceFirst(fullTag.id, "group:", ""))
             ELSE StrV("Uncategorized")

\* groupedEntries after the grouping loop: the groups in insertion order, each
\* [name, entries]
RECURSIVE GroupEntries(_, _, _)
GroupEntries(c, entries, groups) ==
    IF Len(entries) = 0 THEN groups
    ELSE LET entry == Head(entries)
             groupName == GroupNameOf(c, entry)
             at == {i \in 1..Len(groups) : groups[i].name = groupName}
         IN  GroupEntries(c, Tail(entries),
                 IF at = {}
                 THEN Append(groups, [name |-> groupName, entries |-> <<entry>>])
                 ELSE [groups EXCEPT ![SetMin(at)].entries = Append(@, entry)])

\* the groups a connector walks: the sub-topic connectors have one group, named
\* after the configured sub-topic
GroupsOf(c, entries) ==
    IF c.connector = "importBySubTopic"
    THEN <<[name |-> IF c.version = "tag" /\ StrIncludes(c.subTopic, ":")
                     THEN StrV(Split(c.subTopic, ":")[2])
                     ELSE StrV(c.subTopic),
            entries |-> entries]>>
    ELSE GroupEntries(c, entries, <<>>)

NameChars ==
    {"a", "b", "c", "d", "e", "f", "g", "h", "i", "j", "k", "l", "m", "n", "o", "p",
     "q", "r", "s", "t", "u", "v", "w", "x", "y", "z",
     "A", "B", "C", "D", "E", "F", "G", "H", "I", "J", "K", "L", "M", "N", "O", "P",
     "Q", "R", "S", "T", "U", "V", "W", "X", "Y", "Z"}
      \cup Digits \cup {" ", "_", "-"}

\* s.replace(/[^a-zA-Z0-9 _-]/g, "")
RECURSIVE KeepNameChars(_)
KeepNameChars(s) ==
    LET bad == {i \in 1..Len(s) : Char(s, i) \notin NameChars}
    IN  IF bad = {} THEN s
        ELSE SubSeq(s, 1, SetMin(bad) - 1)
               \o KeepNameChars(SubSeq(s, SetMin(bad) + 1, Len(s)))

\* groupName.replace(...).trim() raises a TypeError unless groupName is a string
SanitizeThrows(groupName) == groupName.t # "string"

sanitizedName(groupName) == Trim(KeepNameChars(groupName.s))

\* Number.prototype.toString for a natural number
RECURSIVE NumToStr(_)
NumToStr(n) ==
    LET d == SubSeq("0123456789", (n % 10) + 1, (n % 10) + 1)
    IN  IF n < 10 THEN d ELSE NumToStr(n \div 10) \o d

\* the description passed to createKnowledgeSource
SourceDescription(c, groupName, n) ==
    IF c.connector = "importBySubTopic" /\ c.version = "tag"
    THEN "Contentful Import. Main Topic: " \o c.mainTopic \o ", Sub-Topic: "
           \o c.subTopic \o ". Entries: " \o NumToStr(n) \o "."
    ELSE "Contentful group: " \o ToStr(groupName) \o ". Includes "
           \o NumToStr(n) \o " entries."

\* sourceTags when createKnowledgeSource is called (additionalTags is empty)
SourceTags(c, entriesInGroup) ==
    LET first == entriesInGroup[1]
        fieldTopic == Field(first, MAIN_TOPIC_FIELD_ID)
        tagTopic == getTagByPrefix(first, "topic:")
    IN  CASE c.connector \in {"importByMainTopic", "importBySubTopic"} ->
               <<StrV("contentful"), StrV(contentTypeId), StrV(c.mainTopic)>>
          [] c.version = "field" ->
               <<StrV("contentful"), StrV(contentTypeId)>>
                 \o (IF Truthy(fieldTopic) THEN <<fieldTopic>> ELSE <<>>)
          [] OTHER ->
               <<StrV("contentful"), StrV(contentTypeId)>>
                 \o (IF tagTopic.found /\ tagTopic.id # ""
                     THEN <<StrV(tagTopic.id)>> ELSE <<>>)

\* What the completion request of the LLM strategy ends in: the request is
\* rejected, or a response whose choices[0].message.content is `content`
LlmRejected == [rejected |-> TRUE, content |-> Undefined]

LlmAnswer(content) == [rejected |-> FALSE, content |-> content]

\* a bug: the chunks are numbered by the array index, from 0
FormattedChunksFromZero(entry, entryTitle, chunkStrings) ==
    [index \in 1..Len(chunkStrings) |->
        [text |-> chunkStrings[index],
         data |-> [contentfulEntryId |-> entry.id, title |-> entryTitle,
                   chunk |-> index - 1]]]

\* chunkStrings.map((chunkText, index) => ({text, data: {...}}))
FormattedChunks(entry, entryTitle, chunkStrings) ==
    [index \in 1..Len(chunkStrings) |->
        [text |-> chunkStrings[index],
         data |-> [contentfulEntryId |-> entry.id, title |-> entryTitle,
                   chunk |-> index]]]

\* The body of the per-entry try block.  outcome is "error" when the catch
\* runs, "blank" on the continue, "chunked" when formattedChunks was pushed;
\* chunks is what was pushed; llm tells whether the completion was requested.
EntryResult(how, chunks, llm) == [outcome |-> how, chunks |-> chunks, llm |-> llm]

\* const entryTitle = entry.fields[titleFieldId] || "Untitled"
EntryTitle(entry) == OrElse(Field(entry, titleFieldId), "Untitled")

\* const chunkPrefix = `Title: ${entryTitle}\n\n`
ChunkPrefix(entry) == "Title: " \o ToStr(EntryTitle(entry)) \o "\n\n"

UseLlm(c) == c.connector = "importUnstructured" /\ c.chunkingStrategy = "llm"

\* the chunk strings of the configured strategy
ChunkStrings(c, entry, fullText, llmResponse) ==
    IF UseLlm(c)
    THEN IF llmResponse.rejected THEN ChunksThrown
         ELSE LlmChunkStrings(llmResponse.content, ChunkPrefix(entry))
    ELSE chunkWithRecursiveSplitter(fullText, ChunkPrefix(entry))

\* a bug: the chunk that was being built when the chunker raised is pushed
PushChunksKeepsPartial(c, entry, chunkStrings) ==
    EntryResult(IF chunkStrings.thrown THEN "error" ELSE "chunked",
                FormattedChunks(entry, EntryTitle(entry),
                                IF chunkStrings.thrown THEN <<ChunkPrefix(entry)>>
                                ELSE chunkStrings.chunks),
                UseLlm(c))

\* allChunksForGroup.push(...formattedChunks), unless the chunker raised
PushChunks(c, entry, chunkStrings) ==
    IF chunkStrings.thrown THEN EntryResult("error", <<>>, UseLlm(c))
    ELSE EntryResult("chunked",
                     FormattedChunks(entry, EntryTitle(entry), chunkStrings.chunks),
                     UseLlm(c))

\* a bug: a blank document is chunked like any other
IsBlankNever(fullText) == FALSE

\* if (!fullText.trim()) { ...; continue; }
IsBlank(fullText) == Trim(fullText) = ""

\* the completion is requested for a text that was assembled and is not blank
AsksLlm(c, fullText) == UseLlm(c) /\ ~fullText.thrown /\ ~IsBlank(fullText.out)

\* the try block after assembleContentFromEntry
ChunkEntry(c, entry, fullText, llmResponse) ==
    IF fullText.thrown THEN EntryResult("error", <<>>, FALSE)
    ELSE IF IsBlank(fullText.out) THEN EntryResult("blank", <<>>, FALSE)
    ELSE PushChunks(c, entry, ChunkStrings(c, entry, fullText.out, llmResponse))

ProcessEntry(c, entry, includes, llmResponse) ==
    ChunkEntry(c, entry, assembleContentFromEntry(entry, modulesFieldId, includes),
               llmResponse)

\* ------------------------------------------------------------------------
\* The inputs of a run: the entries a fetch can return, their includes, and
\* the completions the LLM endpoint can answer with
\* ------------------------------------------------------------------------

Text(value) == Node("text", value, "absent", <<>>, NoData)

Paragraph(value) == Node("paragraph", "", "array", <<Text(value)>>, NoData)

Heading2(value) == Node("heading-2", "", "array", <<Text(value)>>, NoData)

Document(nodes) == ObjV(Node("document", "", "array", nodes, NoData))

\* a list node whose content is not an array
BrokenList == Node("unordered-list", "", "other", <<>>, NoData)

SampleIncludes ==
    Includes(TRUE, TRUE,
             <<Entry("acc1", "componentAccordion",
                     [title |-> StrV("FAQ"),
                      body |-> Document(<<Heading2("Setup"), Paragraph("Do X.")>>)],
                     FALSE, <<>>),
               Entry("txt1", "componentText",
                     [title |-> StrV("Tab"), text |-> Document(<<Paragraph("Body")>>)],
                     FALSE, <<>>),
               Entry("img1", "componentImage", [image |-> LinkV("logo")], FALSE, <<>>),
               Entry("unk1", "componentVideo", [title |-> StrV("Clip")], FALSE, <<>>),
               Entry("bad1", "componentAccordion",
                     [title |-> StrV("Bad"),
                      body |-> Document(<<Paragraph("Intro"), BrokenList>>)],
                     FALSE, <<>>),
               Entry("tabs1", "componentTabs",
                     [tabs |-> ArrV(<<Link("txt1"), Link("unk1"), Link("acc1")>>)],
                     FALSE, <<>>)>>,
             TRUE, <<Asset("logo", TRUE, [title |-> StrV("Logo")])>>)

\* the length of an entry title that makes the chunk prefix 1900 characters
LONG_TITLE == MAX_CHUNK_SIZE - CHUNK_OVERLAP - Len("Title: \n\n")

SampleEntries ==
    << \* 1: a modular page of one accordion: one chunk
       Entry("e1", "article",
             [title |-> StrV("FAQ"), knowledgeGroup |-> StrV("WiFi"),
              mainTopic |-> StrV("Internet"), body |-> ArrV(<<Link("acc1")>>)],
             TRUE, <<"topic:Internet", "group:WiFi">>),
       \* 2: no title, no group, a whitespace-only document
       Entry("e2", "article",
             [body |-> Document(<<Paragraph("  ")>>)],
             FALSE, <<>>),
       \* 3: a rich-text body with a malformed list: assembling raises
       Entry("e3", "article",
             [title |-> StrV("Bad"), knowledgeGroup |-> StrV("WiFi"),
              body |-> Document(<<Paragraph("Intro"), BrokenList>>)],
             TRUE, <<"group:WiFi">>),
       \* 4: a title and a group that are numbers
       Entry("e4", "article",
             [title |-> NumV("7"), knowledgeGroup |-> NumV("42"),
              body |-> Document(<<Paragraph("Hi")>>)],
             TRUE, <<>>),
       \* 5: a title so long that the prefix leaves no room for the overlap
       Entry("e5", "article",
             [title |-> StrV(Repeat("t", LONG_TITLE)),
              knowledgeGroup |-> StrV("Fiber & TV"),
              body |-> Document(<<Paragraph("Hi")>>)],
             TRUE, <<"group:Fiber & TV">>),
       \* 6: two long paragraphs around a short one: two chunks that overlap
       Entry("e6", "article",
             [title |-> StrV("Long"), knowledgeGroup |-> StrV("Fiber & TV"),
              body |-> Document(<<Paragraph("Intro"),
                                  Paragraph(Repeat("x", MAX_CHUNK_SIZE \div 2)),
                                  Paragraph("Mid"),
                                  Paragraph(Repeat("y", MAX_CHUNK_SIZE \div 2))>>)],
             TRUE, <<"group:Fiber & TV">>) >>

TwoChunksJson == "{\"chunks\":[\"a\",\"b\"]}"

SampleCompletions ==
    << LlmRejected,
       LlmAnswer(Undefined),
       LlmAnswer(StrV(TwoChunksJson)),
       LlmAnswer(StrV(FENCE_JSON \o "\n" \o TwoChunksJson \o "\n" \o FENCE)),
       LlmAnswer(StrV(FENCE \o "\n" \o TwoChunksJson \o "\n" \o FENCE)),
       LlmAnswer(StrV("{\"bad\":true}")),
       LlmAnswer(StrV("Sorry, I cannot split this text.")),
       LlmAnswer(StrV("{\"chunks\":[\"" \o Repeat("x", MAX_CHUNK_SIZE - 5) \o "\"]}")),
       LlmAnswer(StrV("{\"chunks\":[]}")),
       LlmAnswer(StrV("{\"chunks\":[\"a\",1]}")),
       LlmAnswer(StrV(FENCE_JSON \o "\n{\"bad\":true}\n" \o FENCE)) >>

\* ------------------------------------------------------------------------
\* A connector run
\* ------------------------------------------------------------------------

\* the most entries a fetch returns
MaxEntries == 2

\* the most createKnowledgeSource / createKnowledgeChunk calls that fail in a run
MaxFaults == 1

VARIABLES
    cfg,                \* the configuration of the run
    pc,                 \* "start", "fetch", "entry", "source", "chunk", "done"
    attempt,            \* fetch-retry: the retries made so far
    response,           \* what the last attempt of the fetch ended in
    items,              \* response.items, as indices into SampleEntries
    gi,                 \* the group being processed
    ei,                 \* the entry of that group being processed
    allChunksForGroup,  \* the chunks collected for the group
    knowledgeSourceId,  \* the id createKnowledgeSource returned for the group
    ci,                 \* the chunk being created
    calls,              \* the calls made to getEntries, the LLM and the api
    entryLog,           \* per processed entry: how its try block ended
    sources,            \* the knowledge sources created so far
    faults,             \* the api calls that failed so far
    outcome,            \* "running", "returned" or "threw"
    trial,              \* a chunker applied to one text on its own, see below
    rendering,          \* the renderer applied to one input on its own, see below
    flow,               \* one execution of a flow node on its own, see below
    calling             \* the calls of renderComponent in progress, see below

vars == <<cfg, pc, attempt, response, items, gi, ei, allChunksForGroup, knowledgeSourceId,
          ci, calls, entryLog, sources, faults, outcome, trial, rendering,
          flow, calling>>

\* no chunker trial: the state of `trial` all through a connector run
NoTrial == [stage |-> "none", fullText |-> "", entryTitle |-> Undefined,
            completion |-> 0, result |-> EntryResult("none", <<>>, FALSE)]

\* no renderer trial: the state of `rendering` all through a connector run
NoRendering == [stage |-> "none", op |-> "none", nodes |-> <<>>, links |-> <<>>,
                main |-> "absent", sidebar |-> "absent", includes |-> 1,
                result |-> Ok("")]

\* no execution of a flow node: the state of `flow` all through a connector run
NoFlow == [stage |-> "none", node |-> 0, cacheResult |-> FALSE, retryAttempts |-> 0,
           storeLocation |-> "", contextKey |-> "", inputKey |-> "",
           found |-> [context |-> <<>>, input |-> <<>>],
           context |-> <<>>, input |-> <<>>,
           tries |-> 0, fetches |-> 0, fetched |-> NotFetched, writes |-> <<>>,
           result |-> "none"]

\* no assembly followed call by call: the state of `calling` otherwise
NoCalling == [stage |-> "none", includes |-> 1, main |-> "links", links |-> <<>>,
              sidebar |-> FALSE, stack |-> <<>>]

\* response.items and the groups made of them
Items == [i \in 1..Len(items) |-> SampleEntries[items[i]]]

Groups == GroupsOf(cfg, Items)

\* nothing of a run has happened
Idle ==
    /\ attempt = 0
    /\ response = "none"
    /\ items = <<>>
    /\ gi = 0
    /\ ei = 0
    /\ allChunksForGroup = <<>>
    /\ knowledgeSourceId = 0
    /\ ci = 0
    /\ calls = <<>>
    /\ entryLog = <<>>
    /\ sources = 0
    /\ faults = 0
    /\ outcome = "running"

Init ==
    /\ cfg \in {c \in Configs : WellFormedConfig(c)}
    /\ pc = "start"
    /\ trial = NoTrial
    /\ rendering = NoRendering
    /\ flow = NoFlow
    /\ calling = NoCalling
    /\ Idle

\* the run ends: the function returns, or the error leaves it
Finish(how) ==
    /\ pc' = "done"
    /\ outcome' = how

\* the checks before the try block throw
ConfigError ==
    /\ pc = "start"
    /\ ConfigCheckThrows(cfg)
    /\ Finish("threw")
    /\ UNCHANGED <<cfg, flow, calling, rendering, response, attempt, items, gi, ei, allChunksForGroup,
                   knowledgeSourceId, ci, calls, entryLog, sources, faults, trial>>

\* the checks pass and getEntries is called
CallGetEntries ==
    /\ pc = "start"
    /\ ~ConfigCheckThrows(cfg)
    /\ pc' = "fetch"
    /\ calls' = Append(calls, [op |-> "getEntries", mainTopic |-> cfg.mainTopic,
                               subTopic |-> cfg.subTopic])
    /\ UNCHANGED <<cfg, flow, calling, rendering, response, attempt, items, gi, ei, allChunksForGroup,
                   knowledgeSourceId, ci, entryLog, sources, faults, outcome, trial>>

\* an attempt fails in a way fetch-retry tries again
FetchRetry ==
    /\ pc = "fetch"
    /\ \E o \in AttemptOutcomes : Retries(o, attempt)
    /\ attempt' = attempt + 1
    /\ UNCHANGED <<cfg, flow, calling, rendering, pc, response, items, gi, ei, allChunksForGroup,
                   knowledgeSourceId, ci, calls, entryLog, sources, faults,
                   outcome, trial>>

\* fetchWithRetry throws; the outer catch logs and rethrows
FetchFails ==
    /\ pc = "fetch"
    /\ \E o \in AttemptOutcomes :
         /\ ~Retries(o, attempt)
         /\ FetchThrows(o)
         /\ response' = o
    /\ Finish("threw")
    /\ UNCHANGED <<cfg, flow, calling, rendering, attempt, items, gi, ei, allChunksForGroup,
                   knowledgeSourceId, ci, calls, entryLog, sources, faults, trial>>

\* fetchWithRetry returns null or a body without items: the run returns
FetchEmpty ==
    /\ pc = "fetch"
    /\ \E o \in AttemptOutcomes :
         /\ ~Retries(o, attempt)
         /\ ~FetchThrows(o)
         /\ response' = o
    /\ Finish("returned")
    /\ UNCHANGED <<cfg, flow, calling, rendering, attempt, items, gi, ei, allChunksForGroup,
                   knowledgeSourceId, ci, calls, entryLog, sources, faults, trial>>

\* the response has items: they are grouped and the first group starts
FetchItems ==
    /\ pc = "fetch"
    /\ ~Retries("200", attempt) /\ ~FetchThrows("200")
    /\ response' = "200"
    /\ \E n \in 1..MaxEntries :
         \E f \in [1..n -> 1..Len(SampleEntries)] :
            /\ \A i, j \in 1..n : f[i] = f[j] => i = j
            /\ items' = f
    /\ pc' = "entry"
    /\ attempt' = 0
    /\ gi' = 1
    /\ ei' = 1
    /\ UNCHANGED <<cfg, flow, calling, rendering, allChunksForGroup, knowledgeSourceId, ci, calls,
                   entryLog, sources, faults, outcome, trial>>

\* The try block of the loop over entriesInGroup reads the entry, the
\* includes, the chunking strategy and the answer of the LLM endpoint, and
\* nothing else of the run.  What it assembles and pushes is worked out here
\* for every entry a fetch can return, once for all runs.
EntryIndex(entry) == CHOOSE i \in 1..Len(SampleEntries) : SampleEntries[i] = entry

\* assembleContentFromEntry(entry, modulesFieldId, includes) of entries 1..n
RECURSIVE AssembledUpTo(_)
AssembledUpTo(n) ==
    IF n = 0 THEN <<>>
    ELSE Append(AssembledUpTo(n - 1),
                assembleContentFromEntry(SampleEntries[n], modulesFieldId, SampleIncludes))

AssembledEntries == AssembledUpTo(Len(SampleEntries))

\* the try block of entry n under configuration c, for the answers 1..k
RECURSIVE ChunkedWith(_, _, _)
ChunkedWith(c, n, k) ==
    IF k = 0 THEN <<>>
    ELSE Append(ChunkedWith(c, n, k - 1),
                ChunkEntry(c, SampleEntries[n], AssembledEntries[n], SampleCompletions[k]))

RECURSIVE ChunkedUpTo(_, _)
ChunkedUpTo(c, n) ==
    IF n = 0 THEN <<>>
    ELSE Append(ChunkedUpTo(c, n - 1), ChunkedWith(c, n, Len(SampleCompletions)))

\* the try block reads the configuration through UseLlm alone
RecursiveChunks == ChunkedUpTo(CHOOSE c \in Configs : ~UseLlm(c), Len(SampleEntries))

LlmChunks == ChunkedUpTo(CHOOSE c \in Configs : UseLlm(c), Len(SampleEntries))

ChunkedEntries(c) == IF UseLlm(c) THEN LlmChunks ELSE RecursiveChunks

\* one pass of the loop over entriesInGroup: the try block and its catch
AssembleAndChunk ==
    /\ pc = "entry"
    /\ \E entriesInGroup \in {Groups[gi].entries} :
         /\ \E fullText \in {AssembledEntries[EntryIndex(entriesInGroup[ei])]} :
              \E k \in IF AsksLlm(cfg, fullText) THEN 1..Len(SampleCompletions)
                       ELSE {1} :
              \E res \in {ChunkedEntries(cfg)[EntryIndex(entriesInGroup[ei])][k]} :
                 /\ allChunksForGroup' = allChunksForGroup \o res.chunks
                 /\ entryLog' = Append(entryLog,
                                       [group |-> gi, entry |-> entriesInGroup[ei].id,
                                        outcome |-> res.outcome,
                                        chunks |-> Len(res.chunks)])
                 /\ calls' = IF res.llm
                             THEN Append(calls, [op |-> "llm",
                                                 entry |-> entriesInGroup[ei].id])
                             ELSE calls
         /\ IF ei < Len(entriesInGroup)
            THEN ei' = ei + 1 /\ pc' = "entry"
            ELSE ei' = ei /\ pc' = "source"
    /\ UNCHANGED <<cfg, flow, calling, rendering, response, attempt, items, gi, knowledgeSourceId, ci, sources,
                   faults, outcome, trial>>

\* the loop over the groups moves on, or the run returns after the last group
NextGroup ==
    IF gi < Len(Groups)
    THEN /\ gi' = gi + 1
         /\ ei' = 1
         /\ pc' = "entry"
         /\ allChunksForGroup' = <<>>
         /\ outcome' = outcome
    ELSE /\ gi' = gi
         /\ ei' = ei
         /\ allChunksForGroup' = allChunksForGroup
         /\ Finish("returned")

\* no chunks were created for the group: continue (return, for a sub-topic run)
SkipEmptyGroup ==
    /\ pc = "source"
    /\ Len(allChunksForGroup) = 0
    /\ NextGroup
    /\ UNCHANGED <<cfg, flow, calling, rendering, response, attempt, items, knowledgeSourceId, ci, calls, entryLog,
                   sources, faults, trial>>

\* groupName.replace raises outside the inner try blocks: the outer catch
\* logs and rethrows
SanitizeError ==
    /\ pc = "source"
    /\ Len(allChunksForGroup) > 0
    /\ SanitizeThrows(Groups[gi].name)
    /\ Finish("threw")
    /\ UNCHANGED <<cfg, flow, calling, rendering, response, attempt, items, gi, ei, allChunksForGroup,
                   knowledgeSourceId, ci, calls, entryLog, sources, faults, trial>>

\* a bug: chunkCount is the number of entries of the group
SourceCallOfCountsEntries(group, ok) ==
    [op |-> "createKnowledgeSource",
     group |-> gi,
     name |-> IF sanitizedName(group.name) = "" THEN "Untitled Source"
              ELSE sanitizedName(group.name),
     description |-> SourceDescription(cfg, group.name, Len(group.entries)),
     tags |-> SourceTags(cfg, group.entries),
     chunkCount |-> Len(group.entries),
     ok |-> ok]

\* the createKnowledgeSource call of the group
SourceCallOf(group, ok) ==
    [op |-> "createKnowledgeSource",
     group |-> gi,
     name |-> IF sanitizedName(group.name) = "" THEN "Untitled Source"
              ELSE sanitizedName(group.name),
     description |-> SourceDescription(cfg, group.name, Len(group.entries)),
     tags |-> SourceTags(cfg, group.entries),
     chunkCount |-> Len(allChunksForGroup),
     ok |-> ok]

SourceCall(ok) == SourceCallOf(Groups[gi], ok)

CreateSource ==
    /\ pc = "source"
    /\ Len(allChunksForGroup) > 0
    /\ ~SanitizeThrows(Groups[gi].name)
    /\ calls' = Append(calls, SourceCall(TRUE))
    /\ sources' = sources + 1
    /\ knowledgeSourceId' = sources + 1
    /\ pc' = "chunk"
    /\ ci' = 1
    /\ UNCHANGED <<cfg, flow, calling, rendering, response, attempt, items, gi, ei, allChunksForGroup, entryLog,
                   faults, outcome, trial>>

\* createKnowledgeSource rejects: the catch logs, the next group follows
CreateSourceFails ==
    /\ pc = "source"
    /\ Len(allChunksForGroup) > 0
    /\ ~SanitizeThrows(Groups[gi].name)
    /\ faults < MaxFaults
    /\ faults' = faults + 1
    /\ calls' = Append(calls, SourceCall(FALSE))
    /\ NextGroup
    /\ UNCHANGED <<cfg, flow, calling, rendering, response, attempt, items, knowledgeSourceId, ci, entryLog, sources, trial>>

\* a bug: the chunks of a group are submitted last to first
ChunkCallBackwards(ok) ==
    [op |-> "createKnowledgeChunk",
     group |-> gi,
     knowledgeSourceId |-> knowledgeSourceId,
     index |-> ci,
     text |-> allChunksForGroup[Len(allChunksForGroup) + 1 - ci].text,
     data |-> allChunksForGroup[Len(allChunksForGroup) + 1 - ci].data,
     ok |-> ok]

\* the createKnowledgeChunk call of chunk ci
ChunkCall(ok) ==
    [op |-> "createKnowledgeChunk",
     group |-> gi,
     knowledgeSourceId |-> knowledgeSourceId,
     index |-> ci,
     text |-> allChunksForGroup[ci].text,
     data |-> allChunksForGroup[ci].data,
     ok |-> ok]

\* after chunk ci: the next chunk, or the next group after the last one
AfterChunk ==
    IF ci < Len(allChunksForGroup)
    THEN /\ ci' = ci + 1
         /\ UNCHANGED <<pc, gi, ei, allChunksForGroup, outcome>>
    ELSE /\ ci' = ci
         /\ NextGroup

CreateChunk ==
    /\ pc = "chunk"
    /\ calls' = Append(calls, ChunkCall(TRUE))
    /\ AfterChunk
    /\ UNCHANGED <<cfg, flow, calling, rendering, response, attempt, items, knowledgeSourceId, entryLog, sources, faults, trial>>

\* createKnowledgeChunk rejects: the catch logs, the loop goes on
CreateChunkFails ==
    /\ pc = "chunk"
    /\ faults < MaxFaults
    /\ faults' = faults + 1
    /\ calls' = Append(calls, ChunkCall(FALSE))
    /\ AfterChunk
    /\ UNCHANGED <<cfg, flow, calling, rendering, response, attempt, items, knowledgeSourceId, entryLog, sources, trial>>

Next ==
    \/ ConfigError
    \/ CallGetEntries
    \/ FetchRetry
    \/ FetchFails
    \/ FetchEmpty
    \/ FetchItems
    \/ AssembleAndChunk
    \/ SkipEmptyGroup
    \/ SanitizeError
    \/ CreateSource
    \/ CreateSourceFails
    \/ CreateChunk
    \/ CreateChunkFails

Spec == Init /\ [][Next]_vars

\* ------------------------------------------------------------------------
\* The chunkers on their own: one text of one entry, chunked by the
\* strategy of the configuration
\* ------------------------------------------------------------------------

\* three words, for a split on spaces
WORDS == Repeat("w", 60) \o " " \o Repeat("v", 60) \o " " \o Repeat("u", 60)

\* the assembled text of sample entry i
SampleText(i) ==
    assembleContentFromEntry(SampleEntries[i], modulesFieldId, SampleIncludes).out

\* 130 characters without a separator
UNBROKEN ==
    "1_2_3_4_5_6_7_8_9_10_11_12_13_14_15_16_17_18_19_20_21_22_23_24_25"
      \o "_26_27_28_29_30_31_32_33_34_35_36_37_38_39_40_41_42_43_44_45_46_4"

TrialTexts == {"Hi", "  \n ", WORDS, UNBROKEN, SampleText(1), SampleText(6)}

\* entry titles: a string, none, a number, and two that leave the splitter
\* 101 and 100 characters
TrialTitles ==
    {StrV("FAQ"), Undefined, NumV("7"),
     StrV(Repeat("t", LONG_TITLE - 1)), StrV(Repeat("t", LONG_TITLE))}

\* A text longer than a chunk is tried under the short titles only: under
\* the long ones the splitter cuts it into single characters.
TrialInputs ==
    {in \in TrialTexts \X TrialTitles :
        Len(in[1]) <= MAX_CHUNK_SIZE \/ Len(ToStr(in[2])) <= MAX_CHUNK_SIZE \div 2}

\* the entry of a trial: only its title matters to the chunkers
TrialEntry(entryTitle) ==
    Entry("t1", "article",
          IF entryTitle = Undefined THEN NoFields
          ELSE [k \in {titleFieldId} |-> entryTitle],
          FALSE, <<>>)

ChunkerInit ==
    /\ cfg \in {c \in Configs : /\ WellFormedConfig(c)
                                /\ ~ConfigCheckThrows(c)
                                /\ c.connector = "importUnstructured"
                                /\ c.version = "tag"}
    /\ pc = "trial"
    /\ \E in \in TrialInputs :
         \E k \in IF UseLlm(cfg) THEN 1..Len(SampleCompletions) ELSE {1} :
            trial = [stage |-> "input", fullText |-> in[1], entryTitle |-> in[2],
                     completion |-> k, result |-> NoTrial.result]
    /\ rendering = NoRendering
    /\ flow = NoFlow
    /\ calling = NoCalling
    /\ Idle

\* the try block of one entry, from the assembled text on
Chunked(how) ==
    [trial EXCEPT !.stage = how,
                  !.result = ChunkEntry(cfg, TrialEntry(trial.entryTitle),
                                        Ok(trial.fullText),
                                        SampleCompletions[trial.completion])]

\* chunkingStrategy === "recursive"
SplitRecursively ==
    /\ pc = "trial"
    /\ trial.stage = "input"
    /\ ~UseLlm(cfg)
    /\ trial' = Chunked("recursive")
    /\ UNCHANGED <<cfg, flow, calling, rendering, response, pc, attempt, items, gi, ei, allChunksForGroup,
                   knowledgeSourceId, ci, calls, entryLog, sources, faults, outcome>>

\* chunkingStrategy === "llm"
AskLlm ==
    /\ pc = "trial"
    /\ trial.stage = "input"
    /\ UseLlm(cfg)
    /\ trial' = Chunked("llm")
    /\ UNCHANGED <<cfg, flow, calling, rendering, response, pc, attempt, items, gi, ei, allChunksForGroup,
                   knowledgeSourceId, ci, calls, entryLog, sources, faults, outcome>>

ChunkerNext == SplitRecursively \/ AskLlm

ChunkerSpec == ChunkerInit /\ [][ChunkerNext]_vars

\* ------------------------------------------------------------------------
\* The renderer on its own: one rich-text document, one component or one
\* entry, rendered against one version of the includes
\* ------------------------------------------------------------------------

\* the most top-level nodes of a document, and the most links of a
\* reference list
MaxNodes == 2

MaxLinks == 2

Heading1(value) == Node("heading-1", "", "array", <<Text(value)>>, NoData)

Heading3(value) == Node("heading-3", "", "array", <<Text(value)>>, NoData)

Hyperlink(value, uri) == Node("hyperlink", "", "array", <<Text(value)>>, UriData(uri))

ListOf(nodeType, values) ==
    Node(nodeType, "", "array",
         [i \in 1..Len(values) |->
            Node("list-item", "", "array", <<Paragraph(values[i])>>, NoData)],
         NoData)

Row(values) ==
    Node("table-row", "", "array",
         [i \in 1..Len(values) |->
            Node("table-cell", "", "array", <<Paragraph(values[i])>>, NoData)],
         NoData)

Table(rows) == Node("table", "", "array", rows, NoData)

Embedded(nodeType, id) == Node(nodeType, "", "absent", <<>>, TargetData(id))

\* the top-level nodes a document is made of
RichTextNodes ==
    << Paragraph("Do X."),
       Heading1("Top"),
       Heading2("Setup"),
       Heading3("Sub"),
       ListOf("unordered-list", <<"a", "b">>),
       ListOf("ordered-list", <<"a", "b">>),
       Node("paragraph", "", "array",
            <<Text("See "), Hyperlink("docs", "https://d"), Text(".")>>, NoData),
       \* 8: the table of the example
       Table(<<Row(<<"A", "B">>), Row(<<"1", "2">>)>>),
       \* 9: pipes in the cells, rows of different widths
       Table(<<Row(<<"a|b", " c ">>), Row(<<"|x|">>), Row(<<"p", "q|", "r">>)>>),
       \* 10: a row without cells
       Table(<<Row(<<"H">>), Row(<<>>)>>),
       \* 11: content that is not an array
       Node("table", "", "other", <<>>, NoData),
       \* 12: a header row without a cell array
       Table(<<Node("table-row", "", "absent", <<>>, NoData), Row(<<"1", "2">>)>>),
       \* 13: a later row whose content is not an array
       Table(<<Row(<<"A", "B">>), Row(<<"1", "2">>),
               Node("table-row", "", "other", <<>>, NoData)>>),
       Embedded("embedded-entry-block", "acc1"),
       Embedded("embedded-entry-inline", "none"),
       Embedded("embedded-entry-block", "none"),
       BrokenList,
       \* 18: a header of three cells and no data row
       Table(<<Row(<<"Plan", "Price", "Speed">>)>>),
       \* 19: a hyperlink that is a node of the document itself
       Hyperlink("docs", "https://d"),
       \* 20: a hyperlink without a data object
       Node("hyperlink", "", "array", <<Text("docs")>>, NoData) >>

\* the elements a reference list is made of
ModuleLinks ==
    << Link("acc1"), Link("txt1"), Link("img1"), Link("unk1"), Link("bad1"),
       Link("tabs1"), Link("none"), NullLink, NoSysLink >>

\* the includes of a response: all of them, none, or without the Entry list
IncludesVersions ==
    << SampleIncludes,
       Includes(FALSE, FALSE, <<>>, FALSE, <<>>),
       Includes(TRUE, FALSE, <<>>, TRUE, SampleIncludes.Asset) >>

\* the sequences over 1..n of length at most max
SeqsUpTo(n, max) == UNION {[1..k -> 1..n] : k \in 0..max}

NodesOf(r) == [i \in 1..Len(r.nodes) |-> RichTextNodes[r.nodes[i]]]

LinksOf(r) == [i \in 1..Len(r.links) |-> ModuleLinks[r.links[i]]]

\* what the modular field and the sidebar field of the entry hold
MainField(r) ==
    CASE r.main = "links" -> ArrV(LinksOf(r))
      [] r.main = "document" -> Document(NodesOf(r))
      [] r.main = "scalar" -> StrV("plain text")
      [] OTHER -> Undefined

SidebarField(r) ==
    CASE r.sidebar = "document" -> Document(<<Paragraph("Side")>>)
      [] r.sidebar = "broken" -> Document(<<BrokenList>>)
      [] r.sidebar = "scalar" -> StrV("side")
      [] r.sidebar = "object" -> ObjV(Paragraph("Side"))
      [] OTHER -> Undefined

\* the component and the entry of a trial
RenderedComponent(r) ==
    IF r.op = "tabs"
    THEN Entry("c1", "componentTabs", [tabs |-> ArrV(LinksOf(r))], FALSE, <<>>)
    ELSE Entry("c1", "componentAccordion",
               [title |-> StrV("FAQ"), body |-> Document(NodesOf(r))], FALSE, <<>>)

RenderedEntry(r) ==
    Entry("r1", "article",
          [k \in {modulesFieldId, "sidebarContent"} |->
             IF k = modulesFieldId THEN MainField(r) ELSE SidebarField(r)],
          FALSE, <<>>)

RenderInputs ==
    {[NoRendering EXCEPT !.stage = "input", !.op = op, !.nodes = n, !.includes = v] :
        op \in {"richText", "accordion"},
        n \in SeqsUpTo(Len(RichTextNodes), MaxNodes),
        v \in 1..Len(IncludesVersions)}
    \cup
    {[NoRendering EXCEPT !.stage = "input", !.op = "tabs", !.links = l, !.includes = v] :
        l \in SeqsUpTo(Len(ModuleLinks), MaxLinks), v \in 1..Len(IncludesVersions)}
    \cup
    {[NoRendering EXCEPT !.stage = "input", !.op = "assemble", !.main = "links",
                         !.links = l, !.sidebar = sb, !.includes = v] :
        l \in SeqsUpTo(Len(ModuleLinks), MaxLinks),
        sb \in {"absent", "document", "broken", "scalar", "object"},
        v \in 1..Len(IncludesVersions)}
    \cup
    {[NoRendering EXCEPT !.stage = "input", !.op = "assemble", !.main = m,
                         !.nodes = n, !.sidebar = sb, !.includes = v] :
        m \in {"document", "scalar", "absent"},
        n \in SeqsUpTo(Len(RichTextNodes), 1),
        sb \in {"absent", "document", "broken", "scalar", "object"},
        v \in 1..Len(IncludesVersions)}

RenderInit ==
    /\ cfg \in {c \in Configs : /\ WellFormedConfig(c)
                                /\ ~ConfigCheckThrows(c)
                                /\ c.connector = "importAll"}
    /\ pc = "render"
    /\ trial = NoTrial
    /\ rendering \in RenderInputs
    /\ flow = NoFlow
    /\ calling = NoCalling
    /\ Idle

Rendered(result) ==
    /\ rendering' = [rendering EXCEPT !.stage = "done", !.result = result]
    /\ UNCHANGED <<cfg, flow, calling, pc, attempt, response, items, gi, ei, allChunksForGroup,
                   knowledgeSourceId, ci, calls, entryLog, sources, faults, outcome,
                   trial>>

\* renderRichTextForLLM(richTextDocument, includes)
RenderRichText ==
    /\ pc = "render"
    /\ rendering.stage = "input"
    /\ rendering.op = "richText"
    /\ Rendered(renderRichTextForLLM(Document(NodesOf(rendering)),
                                     IncludesVersions[rendering.includes]))

\* renderComponent(component, includes)
RenderComponent ==
    /\ pc = "render"
    /\ rendering.stage = "input"
    /\ rendering.op \in {"tabs", "accordion"}
    /\ Rendered(Ok(renderComponent(RenderedComponent(rendering),
                                   IncludesVersions[rendering.includes])))

\* assembleContentFromEntry(item, modulesFieldId, includes)
AssembleContent ==
    /\ pc = "render"
    /\ rendering.stage = "input"
    /\ rendering.op = "assemble"
    /\ Rendered(assembleContentFromEntry(RenderedEntry(rendering), modulesFieldId,
                                         IncludesVersions[rendering.includes]))

RenderNext == RenderRichText \/ RenderComponent \/ AssembleContent

RenderSpec == RenderInit /\ [][RenderNext]_vars

\* ------------------------------------------------------------------------
\* The flow nodes on their own: one execution of one node.  `flow` holds the
\* node, its configuration, cognigy.context and cognigy.input (as found and
\* as they are now), and what the execution did so far: the calls of fetchData,
\* what the last one ended in, and the calls of api.addToContext / addToInput.
\* ------------------------------------------------------------------------

FoundValues == {Absent, ZeroData, ResponseData, ErrorData("HTTP 500: Internal Server Error")}

FlowInputs ==
    {[stage |-> "start", node |-> n, cacheResult |-> cache, retryAttempts |-> r,
      storeLocation |-> loc, contextKey |-> ck, inputKey |-> ik,
      found |-> [context |-> [k \in {STORE_KEY} |-> cv], input |-> [k \in {STORE_KEY} |-> iv]],
      context |-> [k \in {STORE_KEY} |-> cv], input |-> [k \in {STORE_KEY} |-> iv],
      tries |-> 0, fetches |-> 0, fetched |-> NotFetched, writes |-> <<>>,
      result |-> "running"] :
        n \in 1..Len(FlowNodes), cache \in BOOLEAN, r \in 0..MaxRetryAttempts,
        loc \in {"context", "input"}, ck \in {"", STORE_KEY}, ik \in {"", STORE_KEY},
        cv \in FoundValues, iv \in FoundValues}

FlowInit ==
    /\ cfg \in {c \in Configs : /\ WellFormedConfig(c)
                                /\ ~ConfigCheckThrows(c)
                                /\ c.connector = "importAll"}
    /\ pc = "flow"
    /\ Idle
    /\ trial = NoTrial
    /\ rendering = NoRendering
    /\ calling = NoCalling
    /\ flow \in {f \in FlowInputs :
                    \* a node without the Execution & Caching section has
                    \* neither field
                    FlowNodes[f.node].caching \/ (~f.cacheResult /\ f.retryAttempts = 0)}

\* the value the caching logic looks at
ExistingData(f) ==
    IF f.storeLocation = "context" THEN Stored(f.found.context, f.contextKey)
    ELSE Stored(f.found.input, f.inputKey)

\* if (cacheResult) { ... if (existingData && !existingData.error) return; }
SkipsFetch(f) == f.cacheResult /\ Usable(ExistingData(f))

\* the retries of the node's fetch
RetriesOf(f) ==
    IF FlowNodes[f.node].fetcher = "options" THEN f.retryAttempts ELSE FETCH_RETRIES

FlowStep(next) ==
    /\ pc = "flow"
    /\ flow' = next
    /\ UNCHANGED <<cfg, calling, pc, attempt, response, items, gi, ei, allChunksForGroup,
                   knowledgeSourceId, ci, calls, entryLog, sources, faults, outcome,
                   trial, rendering>>

\* the storage key holds cached data: the node returns at once
ReturnCached ==
    /\ flow.stage = "start"
    /\ SkipsFetch(flow)
    /\ FlowStep([flow EXCEPT !.stage = "done", !.result = "returned"])

\* the node calls fetchData
CallFetchData ==
    /\ flow.stage = "start"
    /\ ~SkipsFetch(flow)
    /\ FlowStep([flow EXCEPT !.stage = "fetch", !.fetches = @ + 1])

\* an attempt fails in a way fetch-retry tries again
NodeFetchRetry ==
    /\ flow.stage = "fetch"
    /\ \E o \in NodeOutcomes(FlowNodes[flow.node].fetcher) :
          NodeRetries(RetriesOf(flow), o, flow.tries)
    /\ FlowStep([flow EXCEPT !.tries = @ + 1])

\* fetchData returns and the response is stored
StoreResponse ==
    /\ flow.stage = "fetch"
    /\ \E o \in NodeOutcomes(FlowNodes[flow.node].fetcher) :
          /\ ~NodeRetries(RetriesOf(flow), o, flow.tries)
          /\ ~fetchData(FlowNodes[flow.node].fetcher, o).thrown
          /\ FlowStep([Settled(flow, fetchData(FlowNodes[flow.node].fetcher, o))
                         EXCEPT !.fetched = fetchData(FlowNodes[flow.node].fetcher, o)])

\* fetchData throws and the catch stores the error
StoreError ==
    /\ flow.stage = "fetch"
    /\ \E o \in NodeOutcomes(FlowNodes[flow.node].fetcher) :
          /\ ~NodeRetries(RetriesOf(flow), o, flow.tries)
          /\ fetchData(FlowNodes[flow.node].fetcher, o).thrown
          /\ FlowStep([Settled(flow, fetchData(FlowNodes[flow.node].fetcher, o))
                         EXCEPT !.fetched = fetchData(FlowNodes[flow.node].fetcher, o)])

FlowNext == ReturnCached \/ CallFetchData \/ NodeFetchRetry \/ StoreResponse \/ StoreError

FlowSpec == FlowInit /\ [][FlowNext]_vars

\* ------------------------------------------------------------------------
\* One assembleContentFromEntry followed call by call.  `calling` holds the
\* entry, the includes and the calls in progress: the frame of
\* assembleContentFromEntry at the bottom, above it one frame per call of
\* renderComponent that has not returned, each with the component it renders
\* and the number of calls it has made and got back.
\* ------------------------------------------------------------------------

\* the most calls of renderComponent in progress that are followed
MaxCallDepth == 4

\* includes whose components refer to themselves and to each other
CyclicIncludes ==
    Includes(TRUE, TRUE,
             SampleIncludes.Entry \o
             <<Entry("loopTabs", "componentTabs",
                     [tabs |-> ArrV(<<Link("txt1"), Link("loopTabs")>>)], FALSE, <<>>),
               Entry("loopAcc", "componentAccordion",
                     [title |-> StrV("Loop"),
                      body |-> Document(<<Paragraph("x"),
                                          Embedded("embedded-entry-block", "loopAcc")>>)],
                     FALSE, <<>>),
               Entry("ping", "componentTabs", [tabs |-> ArrV(<<Link("pong")>>)],
                     FALSE, <<>>),
               Entry("pong", "componentText",
                     [title |-> StrV("Pong"),
                      text |-> Document(<<Embedded("embedded-entry-inline", "ping")>>)],
                     FALSE, <<>>)>>,
             TRUE, SampleIncludes.Asset)

CallIncludes == <<SampleIncludes, CyclicIncludes>>

CallLinks == ModuleLinks \o <<Link("loopTabs"), Link("loopAcc"), Link("ping")>>

\* the node types renderNode has a case for
NodeCases ==
    {"paragraph", "heading-1", "heading-2", "heading-3", "unordered-list",
     "ordered-list", "hyperlink", "table", "hr", "embedded-entry-inline",
     "embedded-entry-block", "embedded-asset-block"}

\* the ids of the links of a list that renderComponent is called for
LinkedCalls(links, includes) ==
    LET Resolved(link) == link.kind = "link" /\ FindEntry(includes, link.id).found
        resolved == SelectSeq(links, Resolved)
    IN  [i \in 1..Len(resolved) |-> resolved[i].id]

RECURSIVE EmbeddedCalls(_, _)

\* content.forEach(renderNode): the ids of the components renderComponent is
\* called for, in order, up to the node that raises
EmbeddedCalls(nodes, includes) ==
    IF Len(nodes) = 0 THEN [thrown |-> FALSE, ids |-> <<>>]
    ELSE LET node == Head(nodes)
             first ==
                 IF node = NoNode THEN [thrown |-> FALSE, ids |-> <<>>]
                 ELSE IF node.nodeType \in {"embedded-entry-inline", "embedded-entry-block"}
                 THEN [thrown |-> FALSE,
                       ids |-> IF /\ node.data.present
                                  /\ node.data.hasTarget
                                  /\ FindEntry(includes, node.data.targetId).found
                               THEN <<node.data.targetId>>
                               ELSE <<>>]
                 ELSE IF node.nodeType \in NodeCases
                 THEN [thrown |-> renderNode(node, includes).thrown, ids |-> <<>>]
                 ELSE IF node.contentKind = "array"
                 THEN EmbeddedCalls(node.content, includes)
                 ELSE [thrown |-> FALSE, ids |-> <<>>]
             rest == EmbeddedCalls(Tail(nodes), includes)
         IN  IF first.thrown THEN first
             ELSE [thrown |-> rest.thrown, ids |-> first.ids \o rest.ids]

\* the calls of renderComponent that renderRichTextForLLM makes for a field
DocumentCalls(richTextDocument, includes) ==
    IF richTextDocument.t # "object" \/ richTextDocument.node.contentKind = "absent"
    THEN [thrown |-> FALSE, ids |-> <<>>]
    ELSE IF richTextDocument.node.contentKind # "array"
    THEN [thrown |-> TRUE, ids |-> <<>>]
    ELSE EmbeddedCalls(richTextDocument.node.content, includes)

\* the calls of renderComponent that renderComponent(component, includes)
\* makes itself, in order
CalledBy(component, includes) ==
    CASE component.contentType = "componentAccordion" ->
           DocumentCalls(Field(component, "body"), includes).ids
      [] component.contentType = "componentTabs" ->
           LET tabs == Field(component, "tabs")
           IN  IF tabs.t = "array" THEN LinkedCalls(tabs.arr, includes) ELSE <<>>
      [] component.contentType = "componentText" ->
           DocumentCalls(Field(component, "text"), includes).ids
      [] OTHER -> <<>>

\* the calls of renderComponent that assembleContentFromEntry makes itself
AssembleCalls(item, modulesField, includes) ==
    LET mainContentField == Field(item, modulesField)
        sidebarContentField == Field(item, "sidebarContent")
        main == IF mainContentField.t = "array"
                THEN [thrown |-> FALSE,
                      ids |-> LinkedCalls(mainContentField.arr, includes)]
                ELSE IF IsDocument(mainContentField)
                THEN DocumentCalls(mainContentField, includes)
                ELSE [thrown |-> FALSE, ids |-> <<>>]
    IN  IF ~main.thrown /\ IsDocument(sidebarContentField)
        THEN main.ids \o DocumentCalls(sidebarContentField, includes).ids
        ELSE main.ids

\* the entry that is assembled: its modular field holds the links, or a
\* document that embeds their targets
CalledEntry(c) ==
    LET links == [i \in 1..Len(c.links) |-> CallLinks[c.links[i]]]
    IN  Entry("r1", "article",
              [k \in {modulesFieldId, "sidebarContent"} |->
                 IF k = modulesFieldId
                 THEN IF c.main = "links" THEN ArrV(links)
                      ELSE Document([i \in 1..Len(links) |->
                                        Embedded("embedded-entry-block", links[i].id)])
                 ELSE IF c.sidebar
                      THEN Document(<<Embedded("embedded-entry-inline", "acc1")>>)
                      ELSE Undefined],
              FALSE, <<>>)

\* the calls the frame makes, in order
FrameCalls(c, n) ==
    IF n = 1
    THEN AssembleCalls(CalledEntry(c), modulesFieldId, CallIncludes[c.includes])
    ELSE CalledBy(FindEntry(CallIncludes[c.includes], c.stack[n].id).entry,
                  CallIncludes[c.includes])

CallInputs ==
    {[NoCalling EXCEPT !.stage = "running", !.includes = v, !.main = m, !.links = l,
                       !.sidebar = sb, !.stack = <<[id |-> "r1", at |-> 0]>>] :
        v \in 1..Len(CallIncludes), m \in {"links", "document"},
        l \in SeqsUpTo(Len(CallLinks), MaxLinks), sb \in BOOLEAN}

CallInit ==
    /\ cfg \in {c \in Configs : /\ WellFormedConfig(c)
                                /\ ~ConfigCheckThrows(c)
                                /\ c.connector = "importAll"}
    /\ pc = "calls"
    /\ Idle
    /\ trial = NoTrial
    /\ rendering = NoRendering
    /\ flow = NoFlow
    /\ calling \in CallInputs

CallStep(next) ==
    /\ pc = "calls"
    /\ calling.stage = "running"
    /\ calling' = next
    /\ UNCHANGED <<cfg, flow, pc, attempt, response, items, gi, ei, allChunksForGroup,
                   knowledgeSourceId, ci, calls, entryLog, sources, faults, outcome,
                   trial, rendering>>

\* the frame on top reaches its next call: renderComponent is entered
EnterRenderComponent ==
    LET n == Len(calling.stack)
        made == FrameCalls(calling, n)
    IN  /\ calling.stage = "running"
        /\ calling.stack[n].at < Len(made)
        /\ n <= MaxCallDepth
        /\ CallStep([calling EXCEPT
                        !.stack = Append(@, [id |-> made[calling.stack[n].at + 1],
                                             at |-> 0])])

\* the call on top has made all its calls: renderComponent returns its
\* content to the caller, which goes on
ReturnFromRenderComponent ==
    LET n == Len(calling.stack)
    IN  /\ calling.stage = "running"
        /\ n > 1
        /\ calling.stack[n].at = Len(FrameCalls(calling, n))
        /\ CallStep([calling EXCEPT
                        !.stack = [SubSeq(@, 1, n - 1) EXCEPT ![n - 1].at = @ + 1]])

\* assembleContentFromEntry has made all its calls: it returns the content
ReturnCombinedContent ==
    /\ calling.stage = "running"
    /\ Len(calling.stack) = 1
    /\ calling.stack[1].at = Len(FrameCalls(calling, 1))
    /\ CallStep([calling EXCEPT !.stage = "returned"])

CallNext == EnterRenderComponent \/ ReturnFromRenderComponent \/ ReturnCombinedContent

CallSpec == CallInit /\ [][CallNext]_vars

\* ------------------------------------------------------------------------
\* Properties of a connector run
\* ------------------------------------------------------------------------

\* the createKnowledgeChunk calls made so far
ChunkCalls == {j \in 1..Len(calls) : calls[j].op = "createKnowledgeChunk"}

\* the createKnowledgeSource calls made so far
SourceCalls == {j \in 1..Len(calls) : calls[j].op = "createKnowledgeSource"}

\* the loop over the entries of group g has ended
EntriesWalked(g) == g < gi \/ (g = gi /\ pc # "entry")

\* the ids of the entries of group g whose try block has run
EntriesTried(g) ==
    {entryLog[k].entry : k \in {k \in 1..Len(entryLog) : entryLog[k].group = g}}

\* C1: when assembling or chunking an entry raises, none of its chunks is
\* added to the group's chunk list or passed to createKnowledgeChunk, and
\* every entry of the group, the later ones included, is still tried.
C1_FailedEntryIsDropped ==
    /\ \A k \in 1..Len(entryLog) :
         entryLog[k].outcome = "error" =>
           /\ entryLog[k].chunks = 0
           /\ \A j \in 1..Len(allChunksForGroup) :
                allChunksForGroup[j].data.contentfulEntryId # entryLog[k].entry
           /\ \A j \in ChunkCalls :
                calls[j].data.contentfulEntryId # entryLog[k].entry
    /\ \A g \in 1..gi :
         EntriesWalked(g) =>
           \A i \in 1..Len(Groups[g].entries) :
              Groups[g].entries[i].id \in EntriesTried(g)

\* an entry raised, a later entry of the same group was chunked, and a
\* chunk of the later one was sent
C1_Witness ==
    \E k \in 1..Len(entryLog) :
       /\ entryLog[k].outcome = "error"
       /\ \E m \in (k + 1)..Len(entryLog) :
            /\ entryLog[m].group = entryLog[k].group
            /\ entryLog[m].outcome = "chunked"
            /\ \E j \in ChunkCalls :
                 calls[j].data.contentfulEntryId = entryLog[m].entry


\* C5: every chunk text passed to createKnowledgeChunk, by any connector
\* and with either chunking strategy, is at most 2000 characters long, its
\* title prefix included.
C5_ChunkTextWithinLimit ==
    \A j \in ChunkCalls : Len(calls[j].text) <= MAX_CHUNK_SIZE

\* the assembled document of the sample entry with this id is blank
BlankDocument(id) ==
    \E i \in 1..Len(SampleEntries) :
       /\ SampleEntries[i].id = id
       /\ \E doc \in {assembleContentFromEntry(SampleEntries[i], modulesFieldId,
                                               SampleIncludes)} :
             ~doc.thrown /\ Trim(doc.out) = ""

\* C6: an entry whose assembled document is empty or whitespace-only gets
\* zero chunks, and for a group in which no entry yielded a chunk neither
\* createKnowledgeSource nor createKnowledgeChunk is called.
C6_BlankEntryAndEmptyGroupAreSkipped ==
    /\ \A k \in 1..Len(entryLog) :
         BlankDocument(entryLog[k].entry) =>
           /\ entryLog[k].chunks = 0
           /\ \A j \in 1..Len(allChunksForGroup) :
                allChunksForGroup[j].data.contentfulEntryId # entryLog[k].entry
           /\ \A j \in ChunkCalls :
                calls[j].data.contentfulEntryId # entryLog[k].entry
    /\ \A j \in SourceCalls \cup ChunkCalls :
         \E k \in 1..Len(entryLog) :
            entryLog[k].group = calls[j].group /\ entryLog[k].chunks > 0

\* the completion was requested for a run that holds a blank entry, the
\* blank entry was skipped, and a group of blank entries only was passed
\* over while another group got its source
C6_Witness ==
    /\ pc = "done"
    /\ outcome = "returned"
    /\ UseLlm(cfg)
    /\ SourceCalls # {}
    /\ \E k \in 1..Len(entryLog) :
         /\ BlankDocument(entryLog[k].entry)
         /\ \A m \in 1..Len(entryLog) :
              entryLog[m].group = entryLog[k].group => entryLog[m].chunks = 0
         /\ \A j \in SourceCalls : calls[j].group # entryLog[k].group

\* C7: a run ends in a thrown error only when a configuration check or the
\* getEntries fetch fails; for every non-empty item set, whatever its
\* entries' grouping and title fields hold and whatever fails while
\* rendering, chunking and creating sources and chunks, the run returns.
C7_ThrowsOnlyOnConfigOrFetch ==
    outcome = "threw" =>
      /\ items = <<>>
      /\ calls = <<>> \/ response \in {"network", "500", "404", "200-bad-json"}

\* a value the form requires is missing from the configuration
MissingConfig ==
    \/ cfg.spaceId = "" \/ cfg.accessToken = ""
    \/ cfg.connector \in {"importByMainTopic", "importBySubTopic"} /\ cfg.mainTopic = ""
    \/ cfg.connector = "importBySubTopic" /\ cfg.subTopic = ""
    \/ /\ cfg.connector = "importUnstructured" /\ cfg.chunkingStrategy = "llm"
       /\ (cfg.apiKey = "" \/ cfg.endpointUrl = "")

\* C8: with spaceId or accessToken missing, or a required main-topic or
\* sub-topic value missing, or the LLM strategy chosen without API key or
\* endpoint URL, the connector throws before getEntries is called and
\* calls neither createKnowledgeSource nor createKnowledgeChunk.
C8_MissingConfigThrowsBeforeFetch ==
    MissingConfig =>
      /\ calls = <<>>
      /\ pc \in {"start", "done"}
      /\ pc = "done" => outcome = "threw"

\* a run with credentials and the LLM strategy but no endpoint URL threw
C8_Witness ==
    /\ pc = "done"
    /\ outcome = "threw"
    /\ cfg.spaceId # "" /\ cfg.accessToken # ""
    /\ cfg.chunkingStrategy = "llm"
    /\ cfg.apiKey # "" /\ cfg.endpointUrl = ""

\* C9: when the getEntries fetch fails, by a network error or a non-OK
\* status once the retries are used up, the run throws and creates no
\* knowledge source and no chunk.
C9_FetchFailureThrows ==
    response \in {"network", "500", "404"} =>
      /\ pc = "done"
      /\ outcome = "threw"
      /\ SourceCalls = {} /\ ChunkCalls = {}
      /\ sources = 0

\* the fetch answered 500 after the third retry and the run threw
C9_Witness ==
    /\ response = "500"
    /\ attempt = FETCH_RETRIES
    /\ outcome = "threw"

\* the chunk loop of group g is over
ChunksWalked(g) == g < gi \/ (g = gi /\ pc = "done" /\ outcome = "returned")

\* group g went through the loop body: its entries were tried and, when
\* they gave a chunk, createKnowledgeSource was called for it
GroupProcessed(g) ==
    /\ g <= gi
    /\ EntriesWalked(g)
    /\ \/ \A k \in 1..Len(entryLog) : entryLog[k].group = g => entryLog[k].chunks = 0
       \/ \E j \in SourceCalls : calls[j].group = g

\* C10: after a createKnowledgeChunk failure every remaining chunk of the
\* same source is still attempted; after a createKnowledgeSource failure
\* no chunk of that group is attempted and every later group is still
\* processed.
C10_PersistenceFailuresStayLocal ==
    /\ \A j \in ChunkCalls :
         (~calls[j].ok /\ ChunksWalked(calls[j].group)) =>
           \A s \in SourceCalls :
              calls[s].group = calls[j].group =>
                \A i \in (calls[j].index + 1)..calls[s].chunkCount :
                   \E m \in ChunkCalls :
                      /\ m > j
                      /\ calls[m].group = calls[j].group
                      /\ calls[m].index = i
    /\ \A s \in SourceCalls :
         ~calls[s].ok =>
           /\ \A j \in ChunkCalls : calls[j].group # calls[s].group
           /\ pc = "done" =>
                \A g \in (calls[s].group + 1)..Len(Groups) : GroupProcessed(g)


\* ------------------------------------------------------------------------
\* Properties of the chunkers
\* ------------------------------------------------------------------------

\* the completion content of the trial, when the endpoint answered with a
\* string
TrialContent == SampleCompletions[trial.completion].content

TrialAnswered ==
    /\ trial.stage = "llm"
    /\ ~IsBlank(trial.fullText)
    /\ ~SampleCompletions[trial.completion].rejected
    /\ TrialContent.t = "string"

\* the text inside a Markdown code fence, with or without a language tag
\* on its opening line; a text that is not fenced is left as it is
Unfenced(text) ==
    IF /\ StartsWith(Trim(text), FENCE)
       /\ Len(Trim(text)) >= 2 * Len(FENCE)
       /\ StartsWithAt(Trim(text), FENCE, Len(Trim(text)) - Len(FENCE) + 1)
       /\ StrIncludes(Trim(text), "\n")
    THEN Trim(SubSeq(Trim(text), IndexOf(Trim(text), "\n") + 1,
                     Len(Trim(text)) - Len(FENCE)))
    ELSE text

\* the chunks element list the content carries, if it carries one
CarriedChunks(text) ==
    IF JsonParse(Unfenced(text)).ok
    THEN LlmChunkResponseSchema(JsonParse(Unfenced(text)).v)
    ELSE [success |-> FALSE, chunks |-> <<>>]

\* C2: with the LLM strategy, a completion content that does not parse as
\* JSON, or parses to a value that does not match {chunks: string[]},
\* makes the chunking of the entry fail: the entry gets zero chunks and no
\* part of the response is used.
C2_InvalidResponseFailsEntry ==
    (TrialAnswered /\ ~CarriedChunks(TrialContent.s).success) =>
      /\ trial.result.outcome = "error"
      /\ trial.result.chunks = <<>>

\* the answer was an array with a string and a number in it, and the entry
\* failed
C2_Witness ==
    /\ TrialAnswered
    /\ TrialContent.s = "{\"chunks\":[\"a\",1]}"
    /\ trial.result.outcome = "error"

\* C3: with the LLM strategy, a completion content that is JSON of the
\* shape {chunks: string[]} with n elements, bare or wrapped in a Markdown
\* code fence, gives exactly n chunks, in the order of the response, each
\* the title prefix followed by its element.
C3_ValidResponseGivesItsChunks ==
    (TrialAnswered /\ CarriedChunks(TrialContent.s).success) =>
      /\ trial.result.outcome = "chunked"
      /\ Len(trial.result.chunks) = Len(CarriedChunks(TrialContent.s).chunks)
      /\ \A i \in 1..Len(trial.result.chunks) :
           trial.result.chunks[i].text =
             ChunkPrefix(TrialEntry(trial.entryTitle))
               \o CarriedChunks(TrialContent.s).chunks[i]

\* C4: for every non-blank fullText and every titlePrefix, those of
\* arbitrarily long titles included, chunkWithRecursiveSplitter returns
\* normally, and every string it returns starts with titlePrefix and is at
\* most 2000 characters long.
C4_RecursiveSplitterIsTotalAndBounded ==
    (trial.stage = "recursive" /\ Trim(trial.fullText) # "") =>
      /\ trial.result.outcome = "chunked"
      /\ \A i \in 1..Len(trial.result.chunks) :
           /\ StartsWith(trial.result.chunks[i].text,
                         ChunkPrefix(TrialEntry(trial.entryTitle)))
           /\ Len(trial.result.chunks[i].text) <= MAX_CHUNK_SIZE


\* ------------------------------------------------------------------------
\* Properties of the renderer
\* ------------------------------------------------------------------------

\* the trial of this operation has returned or raised
RenderDone(op) == rendering.stage = "done" /\ rendering.op = op

TrialIncludes == IncludesVersions[rendering.includes]

\* the includes of the trial hold an entry of this id
InIncludes(id) ==
    /\ TrialIncludes.present
    /\ TrialIncludes.hasEntry
    /\ \E k \in 1..Len(TrialIncludes.Entry) : TrialIncludes.Entry[k].id = id

\* a sequence without its element i
RemoveAt(seq, i) == SubSeq(seq, 1, i - 1) \o SubSeq(seq, i + 1, Len(seq))

\* node i of the trial's document is an embedded entry whose target the
\* includes do not hold
UnresolvedEmbedded(i) ==
    /\ NodesOf(rendering)[i].nodeType \in {"embedded-entry-inline", "embedded-entry-block"}
    /\ ~InIncludes(NodesOf(rendering)[i].data.targetId)

\* C11: an embedded-entry node, inline or block, whose target id is absent
\* from the includes (or whose includes, or their entry list, are absent)
\* emits nothing and raises nothing: the document renders as it does
\* without that node.
C11_UnresolvedEmbeddedEntryIsSilent ==
    RenderDone("richText") =>
      \A i \in 1..Len(rendering.nodes) :
         UnresolvedEmbedded(i) =>
           rendering.result =
             renderRichTextForLLM(Document(RemoveAt(NodesOf(rendering), i)),
                                  TrialIncludes)

\* a document of an embedded entry that resolves in the full includes and
\* a paragraph, rendered without includes: only the paragraph comes out
C11_Witness ==
    /\ RenderDone("richText")
    /\ ~TrialIncludes.present
    /\ Len(rendering.nodes) = 2
    /\ UnresolvedEmbedded(1)
    /\ NodesOf(rendering)[1].data.targetId = "acc1"
    /\ rendering.result = Ok("Do X.\n\n")


\* the texts of the cells of a row
CellTexts(row) == [i \in 1..Len(row.content) |-> getTextFromNode(row.content[i])]

\* the cells, each followed by a delimiter
RECURSIVE DelimitedCells(_)
DelimitedCells(texts) ==
    IF Len(texts) = 0 THEN ""
    ELSE " " \o Head(texts) \o " |" \o DelimitedCells(Tail(texts))

\* a line of cells between pipes
PipeLine(texts) == "|" \o DelimitedCells(texts) \o "\n"

RECURSIVE PipeLines(_)
PipeLines(rows) ==
    IF Len(rows) = 0 THEN ""
    ELSE PipeLine(CellTexts(Head(rows))) \o PipeLines(Tail(rows))

\* a table whose rows all have cells, the cell texts free of pipes and of
\* white space at their ends
WellFormedTable(node) ==
    /\ node.nodeType = "table"
    /\ node.contentKind = "array"
    /\ Len(node.content) >= 1
    /\ \A r \in 1..Len(node.content) :
         /\ node.content[r].contentKind = "array"
         /\ Len(node.content[r].content) >= 1
         /\ \A c \in 1..Len(node.content[r].content) :
              /\ ~StrIncludes(CellTexts(node.content[r])[c], "|")
              /\ Trim(CellTexts(node.content[r])[c]) = CellTexts(node.content[r])[c]

\* C12: a well-formed table of k header cells and m data rows renders as
\* the header line, a separator line of k columns of three dashes, the m
\* data rows in document order and an empty line; the header A, B with the
\* row 1, 2 gives "| A | B |\n| --- | --- |\n| 1 | 2 |\n\n".
C12_TableRendersAsPipeLines ==
    (RenderDone("richText") /\ Len(rendering.nodes) = 1
       /\ WellFormedTable(NodesOf(rendering)[1])) =>
      /\ rendering.result =
           Ok(PipeLine(CellTexts(NodesOf(rendering)[1].content[1]))
                \o PipeLine([c \in 1..Len(NodesOf(rendering)[1].content[1].content) |-> "---"])
                \o PipeLines(Tail(NodesOf(rendering)[1].content))
                \o "\n")
      /\ NodesOf(rendering)[1] = Table(<<Row(<<"A", "B">>), Row(<<"1", "2">>)>>) =>
           rendering.result.out = "| A | B |\n| --- | --- |\n| 1 | 2 |\n\n"

\* the table of the example was rendered
C12_Witness ==
    /\ RenderDone("richText")
    /\ NodesOf(rendering) = <<Table(<<Row(<<"A", "B">>), Row(<<"1", "2">>)>>)>>
    /\ rendering.result = Ok("| A | B |\n| --- | --- |\n| 1 | 2 |\n\n")


\* the number of pipe characters of a line
Pipes(line) == Cardinality({i \in 1..Len(line) : Char(line, i) = "|"})

\* the trial rendered one table whose rows all hold a cell array
TableRendered ==
    /\ RenderDone("richText")
    /\ Len(rendering.nodes) = 1
    /\ NodesOf(rendering)[1].nodeType = "table"
    /\ NodesOf(rendering)[1].contentKind = "array"
    /\ \A r \in 1..Len(NodesOf(rendering)[1].content) :
         NodesOf(rendering)[1].content[r].contentKind = "array"

TableRow(r) == NodesOf(rendering)[1].content[r]

\* the lines of the output: the header, the separator, then the data rows
LineOfRow(r) == Split(rendering.result.out, "\n")[IF r = 1 THEN 1 ELSE r + 1]

SeparatorLine == Split(rendering.result.out, "\n")[2]

\* C13: in every rendered table line the only pipe characters are the
\* column delimiters, every pipe of a cell text being output as a hyphen:
\* a rendered row of k cells holds exactly k + 1 pipe characters.
C13_RowOfCellsHasOneMorePipe ==
    TableRendered =>
      /\ \A r \in 1..Len(NodesOf(rendering)[1].content) :
           Pipes(LineOfRow(r)) = Len(TableRow(r).content) + 1
      /\ Pipes(SeparatorLine) = Len(TableRow(1).content) + 1

\* C13 as amended: a rendered row of k cells holds exactly k + 1 pipe
\* characters when it has a cell, no pipe of a cell text among them; a row
\* without cells is the line of two pipes "|  |".
C13_RowWithCellsHasOneMorePipe ==
    TableRendered =>
      /\ \A r \in 1..Len(NodesOf(rendering)[1].content) :
           IF Len(TableRow(r).content) >= 1
           THEN /\ Pipes(LineOfRow(r)) = Len(TableRow(r).content) + 1
                /\ \A c \in 1..Len(TableRow(r).content) :
                     StrIncludes(LineOfRow(r),
                                 " " \o ReplaceChars(Trim(CellTexts(TableRow(r))[c]),
                                                     {"|"}, "-") \o " |")
           ELSE LineOfRow(r) = "|  |"
      /\ Len(TableRow(1).content) >= 1 =>
           Pipes(SeparatorLine) = Len(TableRow(1).content) + 1

\* the table with pipes in its cells was rendered: the cell "|x|" came out
\* as the line "| -x- |"
C13_Witness ==
    /\ TableRendered
    /\ Len(NodesOf(rendering)[1].content) = 3
    /\ CellTexts(TableRow(2)) = <<"|x|">>
    /\ LineOfRow(2) = "| -x- |"
    /\ LineOfRow(3) = "| p | q- | r |"


\* a table node that is malformed: content that is not an array, a header
\* row without a cell array, or a later row whose content is not an array
MalformedTable(node) ==
    /\ node.nodeType = "table"
    /\ \/ node.contentKind # "array"
       \/ /\ Len(node.content) >= 1
          /\ node.content[1].contentKind # "array"
       \/ \E r \in 2..Len(node.content) : node.content[r].contentKind = "other"

\* C14: a table node that is malformed at any position emits no text at
\* all, not even a part of its header, and the nodes after it are still
\* rendered: the document renders as it does without that table.
C14_MalformedTableEmitsNothing ==
    RenderDone("richText") =>
      \A i \in 1..Len(rendering.nodes) :
         MalformedTable(NodesOf(rendering)[i]) =>
           rendering.result =
             renderRichTextForLLM(Document(RemoveAt(NodesOf(rendering), i)),
                                  TrialIncludes)


\* the link i of the trial's reference list resolves to a component whose
\* rich text raises while it is rendered
RaisingComponent(i) ==
    /\ LinksOf(rendering)[i].kind = "link"
    /\ InIncludes(LinksOf(rendering)[i].id)
    /\ \E k \in 1..Len(TrialIncludes.Entry) :
         /\ TrialIncludes.Entry[k].id = LinksOf(rendering)[i].id
         /\ TrialIncludes.Entry[k].contentType = "componentAccordion"
         /\ renderRichTextForLLM(Field(TrialIncludes.Entry[k], "body"),
                                 TrialIncludes).thrown

\* C15: when rendering a component raises at any point, for instance in
\* its body rich text after its title line was built, the component
\* contributes the empty string, and the other components of the document
\* are still rendered.
C15_RaisingComponentContributesNothing ==
    /\ (RenderDone("accordion")
          /\ renderRichTextForLLM(Document(NodesOf(rendering)), TrialIncludes).thrown) =>
         rendering.result = Ok("")
    /\ (RenderDone("assemble") /\ rendering.main = "links"
          /\ rendering.sidebar = "absent") =>
         \A i \in 1..Len(rendering.links) :
            RaisingComponent(i) =>
              rendering.result =
                Ok(AssembleModules(RemoveAt(LinksOf(rendering), i), TrialIncludes))


\* the content types renderComponent has a case for
RecognizedTypes ==
    {"componentAccordion", "componentTabs", "componentText", "componentImage"}

\* the entry of the trial's includes with this id (InIncludes(id) holds)
IncludedEntry(id) ==
    TrialIncludes.Entry[CHOOSE k \in 1..Len(TrialIncludes.Entry) :
                           TrialIncludes.Entry[k].id = id]

\* a reference that resolves to an entry of the includes
Resolves(link) == link.kind = "link" /\ InIncludes(link.id)

\* what one reference of a list contributes: the rendering of the component
\* it resolves to, nothing when it does not resolve or when the component's
\* content type is not a recognized one
Contribution(link) ==
    IF ~Resolves(link) THEN ""
    ELSE IF IncludedEntry(link.id).contentType \notin RecognizedTypes THEN ""
    ELSE renderComponent(IncludedEntry(link.id), TrialIncludes)

RECURSIVE Contributions(_)
Contributions(links) ==
    IF Len(links) = 0 THEN ""
    ELSE Contribution(Head(links)) \o Contributions(Tail(links))

\* C16: a tabs component renders as the concatenation, in the order of its
\* tab list, of the renderings of the tab references that resolve; a tab
\* that does not resolve, or whose content type is not recognized,
\* contributes the empty string and leaves the others as they are.
C16_TabsConcatenateResolvedTabs ==
    RenderDone("tabs") =>
      rendering.result = Ok(Contributions(LinksOf(rendering)))

C16_Witness ==
    /\ RenderDone("tabs")
    /\ Len(rendering.links) = 2
    /\ ~Resolves(LinksOf(rendering)[1])
    /\ Resolves(LinksOf(rendering)[2])
    /\ rendering.result = Ok("### Tab\n\nBody\n\n\n")


\* the rendering of the body of the trial's accordion
AccordionBody == renderRichTextForLLM(Document(NodesOf(rendering)), TrialIncludes)

\* the trial assembles an entry whose modular field is one reference to the
\* accordion FAQ with the body [heading-2(Setup), paragraph(Do X.)]
AssemblesFaq ==
    /\ RenderDone("assemble")
    /\ rendering.main = "links"
    /\ LinksOf(rendering) = <<Link("acc1")>>
    /\ rendering.sidebar = "absent"
    /\ rendering.includes = 1

\* C17: an accordion with title T and body B renders as "## T", a blank
\* line, the rendering of B and a blank line; an entry whose modular field
\* is one reference to the accordion FAQ with body [heading-2(Setup),
\* paragraph(Do X.)] assembles to "## FAQ\n\n## Setup\n\nDo X.\n\n\n".
C17_AccordionIsTitleThenBody ==
    /\ (RenderDone("accordion") /\ ~AccordionBody.thrown) =>
         rendering.result = Ok("## FAQ" \o "\n\n" \o AccordionBody.out \o "\n")
    /\ AssemblesFaq =>
         rendering.result = Ok("## FAQ\n\n## Setup\n\nDo X.\n\n\n")

C17_Witness ==
    /\ AssemblesFaq
    /\ rendering.result = Ok("## FAQ\n\n## Setup\n\nDo X.\n\n\n")


\* the trial assembles an entry whose modular field is a list of references
\* and which has no sidebar document
AssemblesModules ==
    /\ RenderDone("assemble")
    /\ rendering.main = "links"
    /\ rendering.sidebar \in {"absent", "scalar", "object"}

\* the rendering of the components the references resolve to, in list
\* order; null, malformed and unresolved references are passed over
RECURSIVE ResolvedModules(_)
ResolvedModules(links) ==
    IF Len(links) = 0 THEN ""
    ELSE (IF Resolves(Head(links))
          THEN renderComponent(IncludedEntry(Head(links).id), TrialIncludes)
          ELSE "")
           \o ResolvedModules(Tail(links))

\* C18: a modular list assembles to the concatenation, in list order, of
\* the component rendering of each reference that resolves; a null, a
\* malformed or an unresolved reference is skipped and never ends the loop.
C18_ModulesConcatenateInOrder ==
    AssemblesModules =>
      rendering.result = Ok(ResolvedModules(LinksOf(rendering)))

C18_Witness ==
    /\ AssemblesModules
    /\ Len(rendering.links) = 2
    /\ LinksOf(rendering)[1] \in {NullLink, NoSysLink, Link("none")}
    /\ LinksOf(rendering)[2] = Link("img1")
    /\ rendering.result = Ok("[Image: Logo]\n\n")


\* the main content and the sidebar's rendering of an assembling trial
TrialMain == MainContent(MainField(rendering), TrialIncludes)

TrialSidebar == renderRichTextForLLM(SidebarField(rendering), TrialIncludes)

\* the sidebar field of the trial is a rich-text document
SidebarIsDocument == rendering.sidebar \in {"document", "broken"}

\* the trial assembled an entry and no rendering raised
Assembled ==
    /\ RenderDone("assemble")
    /\ ~TrialMain.thrown
    /\ SidebarIsDocument => ~TrialSidebar.thrown

\* C19: whatever the modular field holds (a reference list, rich text, a
\* scalar or nothing), when sidebarContent is a rich-text document the
\* assembled string is exactly the main content followed by the heading
\* "## Sidebar Content", a blank line and the sidebar's rendering; when it
\* is not a rich-text document nothing is appended.
C19_SidebarFollowsMainContent ==
    Assembled =>
      rendering.result =
        Ok(IF SidebarIsDocument
           THEN TrialMain.out \o "## Sidebar Content\n\n" \o TrialSidebar.out
           ELSE TrialMain.out)

\* C19, amended: the heading is appended after a line break of its own, so
\* the assembled string is the main content, "\n", "## Sidebar Content",
\* a blank line and the sidebar's rendering.
C19_SidebarFollowsMainContentAfterLineBreak ==
    Assembled =>
      rendering.result =
        Ok(IF SidebarIsDocument
           THEN TrialMain.out \o "\n" \o "## Sidebar Content\n\n" \o TrialSidebar.out
           ELSE TrialMain.out)

C19_Witness ==
    /\ Assembled
    /\ rendering.main = "document"
    /\ rendering.sidebar = "document"
    /\ rendering.nodes = <<1>>
    /\ rendering.result = Ok("Do X.\n\n\n## Sidebar Content\n\nSide\n\n")


\* a node all of whose children are text leaves
TextOnly(node) ==
    /\ node.contentKind = "array"
    /\ \A i \in 1..Len(node.content) : node.content[i].nodeType = "text"

\* a paragraph, a heading of level 1 to 3, or a list of items that hold
\* paragraphs
PlainNode(node) ==
    \/ node.nodeType \in {"paragraph", "heading-1", "heading-2", "heading-3"}
         /\ TextOnly(node)
    \/ /\ node.nodeType \in {"ordered-list", "unordered-list"}
       /\ node.contentKind = "array"
       /\ \A i \in 1..Len(node.content) :
            /\ node.content[i].nodeType = "list-item"
            /\ node.content[i].contentKind = "array"
            /\ \A j \in 1..Len(node.content[i].content) :
                 /\ node.content[i].content[j].nodeType = "paragraph"
                 /\ TextOnly(node.content[i].content[j])

\* one "* " line for each item of a list
RECURSIVE BulletLines(_)
BulletLines(listItems) ==
    IF Len(listItems) = 0 THEN ""
    ELSE "* " \o getTextFromNode(Head(listItems)) \o "\n"
           \o BulletLines(Tail(listItems))

\* the block of a plain node, ending in a blank line
Block(node) ==
    CASE node.nodeType = "paragraph" -> getTextFromNode(node) \o "\n\n"
      [] node.nodeType = "heading-1" -> "#" \o " " \o getTextFromNode(node) \o "\n\n"
      [] node.nodeType = "heading-2" -> "##" \o " " \o getTextFromNode(node) \o "\n\n"
      [] node.nodeType = "heading-3" -> "###" \o " " \o getTextFromNode(node) \o "\n\n"
      [] OTHER -> BulletLines(node.content) \o "\n"

RECURSIVE Blocks(_)
Blocks(topLevel) ==
    IF Len(topLevel) = 0 THEN "" ELSE Block(Head(topLevel)) \o Blocks(Tail(topLevel))

\* the trial rendered a document of plain nodes only
RenderedPlainDocument ==
    /\ RenderDone("richText")
    /\ \A i \in 1..Len(rendering.nodes) : PlainNode(NodesOf(rendering)[i])

\* C20: a rich-text document whose nodes are only paragraphs, headings of
\* level 1 to 3 and ordered or unordered lists renders as the concatenation,
\* in document order, of one block for each top-level node, each block
\* ending in a blank line: the paragraph's flattened text, "#", "##" or
\* "###" with a space and the flattened text, or one "* " line for each item
\* of the list, ordered and unordered lists alike.
C20_PlainDocumentIsOneBlockPerNode ==
    RenderedPlainDocument =>
      rendering.result = Ok(Blocks(NodesOf(rendering)))

C20_Witness ==
    /\ RenderedPlainDocument
    /\ Len(rendering.nodes) = 2
    /\ NodesOf(rendering)[1].nodeType = "ordered-list"
    /\ NodesOf(rendering)[2].nodeType = "heading-3"
    /\ rendering.result = Ok("* a\n* b\n\n### Sub\n\n")


\* ------------------------------------------------------------------------
\* Properties of the grouping and of the order of a run
\* ------------------------------------------------------------------------

\* the run is one of the import-all or by-main-topic connectors and has
\* grouped the entries of its fetch
GroupedRun ==
    /\ cfg.connector \in {"importAll", "importByMainTopic"}
    /\ pc \notin {"start", "fetch"}
    /\ Len(items) > 0

\* the places <<g, k>> at which the groups hold an entry
PlacesOf(entry) ==
    {p \in {<<g, k>> : g \in 1..Len(Groups), k \in 1..MaxEntries + 1} :
        /\ p[2] <= Len(Groups[p[1]].entries)
        /\ Groups[p[1]].entries[p[2]] = entry}

\* the place of an entry in the fetched list
FetchPosition(entry) == CHOOSE i \in 1..Len(items) : Items[i] = entry

\* the group an entry's knowledgeGroup field names
FieldGroupName(entry) ==
    IF Truthy(Field(entry, "knowledgeGroup")) THEN Field(entry, "knowledgeGroup")
    ELSE StrV("Uncategorized")

\* the group an entry's first group: tag names
TagGroupName(entry) ==
    IF entry.hasTags /\ \E t \in 1..Len(entry.tags) : StartsWith(entry.tags[t], "group:")
    THEN LET t == CHOOSE t \in 1..Len(entry.tags) :
                    /\ StartsWith(entry.tags[t], "group:")
                    /\ \A u \in 1..(t - 1) : ~StartsWith(entry.tags[u], "group:")
         IN  StrV(SubSeq(entry.tags[t], Len("group:") + 1, Len(entry.tags[t])))
    ELSE StrV("Uncategorized")

\* every entry has one place, the groups have different names, the entries of
\* a group are in fetch order, and no group has two createKnowledgeSource calls
GroupsPartitionInOrder ==
    /\ \A i \in 1..Len(items) : Cardinality(PlacesOf(Items[i])) = 1
    /\ \A g, h \in 1..Len(Groups) : Groups[g].name = Groups[h].name => g = h
    /\ \A g \in 1..Len(Groups) :
         \A k, m \in 1..Len(Groups[g].entries) :
            k < m => FetchPosition(Groups[g].entries[k])
                       < FetchPosition(Groups[g].entries[m])
    /\ \A j, m \in SourceCalls : calls[j].group = calls[m].group => j = m

\* C21: in the import-all and by-main-topic connectors every fetched entry
\* is placed in exactly one group, the group named by its knowledgeGroup
\* value or "Uncategorized" when it has none; the entries of a group keep
\* their fetch order, and at most one knowledge source is created per group.
C21_GroupedByKnowledgeGroup ==
    GroupedRun =>
      /\ GroupsPartitionInOrder
      /\ \A g \in 1..Len(Groups) :
           \A k \in 1..Len(Groups[g].entries) :
              Groups[g].name = FieldGroupName(Groups[g].entries[k])

\* what holds of every version: the field-based connectors name the group by
\* the knowledgeGroup value, the tag-based by-main-topic connector by the
\* entry's first group: tag without its prefix.
GroupedByFieldOrTag ==
    GroupedRun =>
      /\ GroupsPartitionInOrder
      /\ \A g \in 1..Len(Groups) :
           \A k \in 1..Len(Groups[g].entries) :
              Groups[g].name = IF cfg.version = "field"
                               THEN FieldGroupName(Groups[g].entries[k])
                               ELSE TagGroupName(Groups[g].entries[k])


\* ------------------------------------------------------------------------
\* Properties of a flow node execution
\* ------------------------------------------------------------------------

\* the execution is past the caching logic
PastCaching == flow.stage \in {"fetch", "done"}

\* nothing was fetched and nothing written
NothingDone ==
    /\ flow.stage = "done"
    /\ flow.fetches = 0
    /\ flow.writes = <<>>
    /\ flow.context = flow.found.context
    /\ flow.input = flow.found.input

FetchEnded == flow.stage = "done" /\ flow.fetches = 1

\* the key the configuration names for its storeLocation
ConfiguredKey ==
    IF flow.storeLocation = "context" THEN flow.contextKey ELSE flow.inputKey

\* what the execution has to store: the response, or {error: message}
DataToStore ==
    IF flow.fetched.thrown THEN [t |-> "object", error |-> flow.fetched.message]
    ELSE flow.fetched.data

\* one write, of the data to store, to the configured place and key, and the
\* place holds it afterwards while the other place is as found
StoredOnce ==
    /\ flow.writes = <<[to |-> flow.storeLocation, key |-> ConfiguredKey,
                        data |-> DataToStore]>>
    /\ flow.fetched.thrown => flow.fetched.message # ""
    /\ IF flow.storeLocation = "context"
       THEN /\ flow.context[ConfiguredKey] = DataToStore
            /\ flow.input = flow.found.input
       ELSE /\ flow.input[ConfiguredKey] = DataToStore
            /\ flow.context = flow.found.context

\* C30: a flow node execution never throws; when the fetch succeeds it stores
\* the response and when the fetch fails it stores {error: message} under the
\* same key, in the Context when storeLocation is "context" and in the Input
\* when it is "input", with at most one storage write per execution.
C30_ResultIsAlwaysStored ==
    /\ flow.result # "threw"
    /\ Len(flow.writes) <= 1
    /\ FetchEnded => StoredOnce

\* C30, amended: the response or the error is stored when the configured key
\* is not empty; with an empty key the execution writes nothing.
C30_ResultIsStoredUnderNonEmptyKey ==
    /\ flow.result # "threw"
    /\ Len(flow.writes) <= 1
    /\ (FetchEnded /\ ConfiguredKey # "") => StoredOnce
    /\ (FetchEnded /\ ConfiguredKey = "") =>
          /\ flow.writes = <<>>
          /\ flow.context = flow.found.context
          /\ flow.input = flow.found.input

\* a fetch that timed out was stored as an error in the Input, over the data
\* found there
C30_Witness ==
    /\ FetchEnded
    /\ flow.storeLocation = "input"
    /\ flow.found.input[STORE_KEY] = ResponseData
    /\ flow.fetched.thrown
    /\ flow.input[STORE_KEY] = ErrorData("Request timed out after 8000ms")
    /\ flow.context = flow.found.context


\* the createKnowledgeSource and createKnowledgeChunk calls made so far
SinkCalls == SourceCalls \cup ChunkCalls

\* the ids of the entries of each group, in the order of the group
GroupIds ==
    LET ids(group) == [k \in 1..Len(group.entries) |-> group.entries[k].id]
    IN  [g \in 1..Len(Groups) |-> ids(Groups[g])]

\* the place of the entry with an id among the ids of a group
PlaceAmong(ids, id) == CHOOSE k \in 1..Len(ids) : ids[k] = id

\* the logs of a run are in the order of the groups, of the entries of a
\* group and of the chunks of an entry; a group has calls only once all its
\* entries were tried, and chunk calls only after its source was created
LogsInOrder ==
    \A ids \in {GroupIds} :
    \A place \in {[j \in ChunkCalls |->
                     PlaceAmong(ids[calls[j].group], calls[j].data.contentfulEntryId)]} :
    \A tried \in {[k \in 1..Len(entryLog) |->
                     PlaceAmong(ids[entryLog[k].group], entryLog[k].entry)]} :
       /\ \A j, m \in SinkCalls : j < m => calls[j].group <= calls[m].group
       /\ \A k, m \in 1..Len(entryLog) :
            k < m =>
              \/ entryLog[k].group < entryLog[m].group
              \/ /\ entryLog[k].group = entryLog[m].group
                 /\ tried[k] < tried[m]
       /\ \A j \in SinkCalls :
            EntriesTried(calls[j].group)
              = {ids[calls[j].group][k] : k \in 1..Len(ids[calls[j].group])}
       /\ \A j \in ChunkCalls :
            \E s \in SourceCalls :
               /\ s < j
               /\ calls[s].group = calls[j].group
               /\ calls[s].ok
       /\ \A j, m \in ChunkCalls :
            (j < m /\ calls[j].group = calls[m].group) =>
              \/ place[j] < place[m]
              \/ /\ place[j] = place[m]
                 /\ calls[j].data.chunk < calls[m].data.chunk

\* a step makes at most one call, which has ended when the step has; it
\* works on the current group only, trying an entry while the group has no
\* call yet, and never goes back to an earlier group
OneGroupAtATime ==
    /\ gi' >= gi
    /\ \/ calls' = calls
       \/ /\ Len(calls') = Len(calls) + 1
          /\ SubSeq(calls', 1, Len(calls)) = calls
          /\ calls'[Len(calls')].op \in {"createKnowledgeSource", "createKnowledgeChunk"}
               => calls'[Len(calls')].group = gi
    /\ \/ entryLog' = entryLog
       \/ /\ Len(entryLog') = Len(entryLog) + 1
          /\ SubSeq(entryLog', 1, Len(entryLog)) = entryLog
          /\ entryLog'[Len(entryLog')].group = gi
          /\ \A j \in SinkCalls : calls[j].group < gi
          /\ \A j \in 1..Len(calls') :
                calls'[j].op \in {"createKnowledgeSource", "createKnowledgeChunk"}
                  => calls'[j].group < gi

\* C23: groups are processed one after another; within a group every entry
\* is assembled and chunked, in order, before the source is created;
\* createKnowledgeSource for a group completes before any createKnowledgeChunk
\* of that group; at most one createKnowledgeChunk call is in flight at any
\* time; and chunks are submitted in entry order, then chunk order.
C23_GroupsEntriesChunksInOrder == []LogsInOrder /\ [][OneGroupAtATime]_vars

\* a run over two groups has returned: the first group got its source and
\* two chunks, then the second its source and its chunk
C23_Witness ==
    /\ pc = "done"
    /\ outcome = "returned"
    /\ Len(Groups) = 2
    /\ \E s, t \in SourceCalls : calls[s].group = 1 /\ calls[t].group = 2
    /\ Cardinality({j \in ChunkCalls : calls[j].group = 1}) = 2
    /\ \E j \in ChunkCalls : calls[j].group = 2


\* the createKnowledgeChunk calls of group g for the entry with an id
CallsOfEntry(g, id) ==
    {j \in ChunkCalls : calls[j].group = g /\ calls[j].data.contentfulEntryId = id}

\* the source of group g was created and the loop over its chunks has ended
GroupSubmitted(g) ==
    /\ \E s \in SourceCalls : calls[s].group = g /\ calls[s].ok
    /\ g < gi \/ pc = "done"

\* the sample entry with an id
SampleWithId(id) == CHOOSE n \in 1..Len(SampleEntries) : SampleEntries[n].id = id

\* C27: for every entry that yields n chunks, the chunks handed to the sink
\* carry data.chunk 1, 2, ..., n in document order together with the entry's
\* id and title; the numbering restarts at 1 for each entry, also when
\* several entries share one knowledge source.
C27_ChunksNumberedPerEntry ==
    /\ \A j \in ChunkCalls :
         \E k \in 1..Len(entryLog) :
            /\ entryLog[k].group = calls[j].group
            /\ entryLog[k].entry = calls[j].data.contentfulEntryId
    /\ \A k \in 1..Len(entryLog) :
       \A own \in {CallsOfEntry(entryLog[k].group, entryLog[k].entry)} :
       \A n \in {SampleWithId(entryLog[k].entry)} :
         /\ \A j \in own :
              /\ calls[j].data.chunk = Cardinality({m \in own : m <= j})
              /\ calls[j].data.chunk <= entryLog[k].chunks
              /\ calls[j].data.title = EntryTitle(SampleEntries[n])
         /\ GroupSubmitted(entryLog[k].group) => Cardinality(own) = entryLog[k].chunks
         /\ \E c \in 1..Len(SampleCompletions) :
              \A chunks \in {ChunkedEntries(cfg)[n][c].chunks} :
                 /\ Len(chunks) = entryLog[k].chunks
                 /\ \A j \in own : calls[j].text = chunks[calls[j].data.chunk].text

\* a source got the two chunks of one entry, numbered 1 and 2, and a chunk
\* of another entry, numbered 1
C27_Witness ==
    /\ pc = "done"
    /\ \E j, m, q \in ChunkCalls :
         /\ j < m
         /\ calls[j].group = calls[m].group
         /\ calls[q].group = calls[j].group
         /\ calls[j].data.contentfulEntryId = calls[m].data.contentfulEntryId
         /\ calls[q].data.contentfulEntryId # calls[j].data.contentfulEntryId
         /\ calls[j].data.chunk = 1
         /\ calls[m].data.chunk = 2
         /\ calls[q].data.chunk = 1


\* the id the sink gave the source of a createKnowledgeSource call that
\* succeeded: the sources are numbered as they are created
SourceIdOf(s) == Cardinality({t \in SourceCalls : t <= s /\ calls[t].ok})

\* the createKnowledgeChunk calls attempted for the source with an id
CallsForSource(id) == {j \in ChunkCalls : calls[j].knowledgeSourceId = id}

\* the chunks of the entries of group g among the first n entries tried
RECURSIVE ChunksLogged(_, _)
ChunksLogged(g, n) ==
    IF n = 0 THEN 0
    ELSE ChunksLogged(g, n - 1)
           + (IF entryLog[n].group = g THEN entryLog[n].chunks ELSE 0)

\* C29: for every knowledge source a connector creates, the chunkCount
\* passed to createKnowledgeSource equals the number of createKnowledgeChunk
\* calls subsequently attempted for that source, which equals the total
\* number of chunks of the group's successfully processed entries.
C29_ChunkCountIsCallsAttempted ==
    \A s \in SourceCalls :
       calls[s].ok =>
         \A attempted \in {CallsForSource(SourceIdOf(s))} :
            /\ calls[s].chunkCount = ChunksLogged(calls[s].group, Len(entryLog))
            /\ \A j \in attempted : j > s /\ calls[j].group = calls[s].group
            /\ Cardinality(attempted) <= calls[s].chunkCount
            /\ GroupSubmitted(calls[s].group) =>
                  Cardinality(attempted) = calls[s].chunkCount

\* the source of a group of two entries was created with chunkCount 1: one
\* entry failed, the chunk of the other was attempted and rejected
C29_Witness ==
    \E s \in SourceCalls :
       /\ calls[s].ok
       /\ GroupSubmitted(calls[s].group)
       /\ calls[s].chunkCount = 1
       /\ Len(Groups[calls[s].group].entries) = 2
       /\ \E k \in 1..Len(entryLog) :
             entryLog[k].group = calls[s].group /\ entryLog[k].outcome = "error"
       /\ \E j \in CallsForSource(SourceIdOf(s)) : ~calls[j].ok


\* ------------------------------------------------------------------------
\* Properties of the recursive splitter on a text without separators
\* ------------------------------------------------------------------------

\* the prefix of the trial and what it leaves of a chunk
TrialPrefix == ChunkPrefix(TrialEntry(trial.entryTitle))

\* the text of the trial has no separator character and is longer than the
\* budget the prefix leaves
UnbrokenTrial ==
    /\ trial.stage = "recursive"
    /\ \A i \in 1..Len(trial.fullText) : Char(trial.fullText, i) \notin {" ", "\n"}
    /\ Len(trial.fullText) > MAX_CHUNK_SIZE - Len(TrialPrefix)

\* chunk i without the prefix and, after the first chunk, without the
\* overlap it shares with the chunk before it
NewText(i) ==
    LET text == trial.result.chunks[i].text
        from == Len(TrialPrefix) + (IF i = 1 THEN 0 ELSE CHUNK_OVERLAP) + 1
    IN  SubSeq(text, from, Len(text))

\* chunk i starts with the prefix and, after the first chunk, goes on with
\* the last characters of the chunk before it
SharesOverlap(i) ==
    LET text == trial.result.chunks[i].text
        before == trial.result.chunks[i - 1].text
    IN  /\ StartsWith(text, TrialPrefix)
        /\ i > 1 => SubSeq(text, Len(TrialPrefix) + 1, Len(TrialPrefix) + CHUNK_OVERLAP)
                      = SubSeq(before, Len(before) - CHUNK_OVERLAP + 1, Len(before))

\* C28: for an input with no separator characters that is longer than the
\* budget, the chunks of the recursive splitter, after removing the title
\* prefix and the overlap shared by consecutive chunks, concatenate to
\* exactly the original text.
C28_UnbrokenTextIsReassembled ==
    UnbrokenTrial =>
      /\ trial.result.outcome = "chunked"
      /\ \A i \in 1..Len(trial.result.chunks) : SharesOverlap(i)
      /\ Join([i \in 1..Len(trial.result.chunks) |-> NewText(i)], "") = trial.fullText

\* what holds: the text is reassembled whenever the splitter returns
ReassembledWhenReturned ==
    (UnbrokenTrial /\ trial.result.outcome = "chunked") =>
      /\ Len(trial.result.chunks) > 1
      /\ \A i \in 1..Len(trial.result.chunks) : SharesOverlap(i)
      /\ Join([i \in 1..Len(trial.result.chunks) |-> NewText(i)], "") = trial.fullText


\* an unbroken text was cut into chunks
UnbrokenTextWasChunked == UnbrokenTrial /\ trial.result.outcome = "chunked"


\* ------------------------------------------------------------------------
\* Properties of the renderer on malformed nodes and on hyperlinks
\* ------------------------------------------------------------------------

\* a list whose content is not an array, or a hyperlink without data
Malformed(node) ==
    \/ /\ node.nodeType \in {"unordered-list", "ordered-list"}
       /\ node.contentKind # "array"
    \/ /\ node.nodeType = "hyperlink"
       /\ ~node.data.present

WellFormedIndex(i) == ~Malformed(RichTextNodes[i])

\* the trial without the malformed nodes of its document
WithoutMalformed == [rendering EXCEPT !.nodes = SelectSeq(rendering.nodes, WellFormedIndex)]

HasMalformed == \E i \in 1..Len(rendering.nodes) : ~WellFormedIndex(rendering.nodes[i])

\* C24: a malformed rich-text node outside a table (a list whose content is
\* not an array, a hyperlink without a data object) contributes empty
\* output, and the remaining nodes of the document and the rest of the
\* entry's content are still rendered.
C24_MalformedNodeContributesNothing ==
    /\ (RenderDone("richText") /\ HasMalformed) =>
          rendering.result
            = renderRichTextForLLM(Document(NodesOf(WithoutMalformed)), TrialIncludes)
    /\ (RenderDone("assemble") /\ rendering.main = "document" /\ HasMalformed
          /\ rendering.sidebar # "broken") =>
          rendering.result
            = assembleContentFromEntry(RenderedEntry(WithoutMalformed), modulesFieldId,
                                       TrialIncludes)
    /\ (RenderDone("assemble") /\ rendering.sidebar = "broken") => ~rendering.result.thrown

\* the hyperlinks of a document: its own nodes and the children of its
\* paragraphs that are hyperlinks with a uri
HyperlinksOf(nodes) ==
    {nodes[i] : i \in {i \in 1..Len(nodes) :
                          nodes[i].nodeType = "hyperlink" /\ nodes[i].data.present}}
    \cup UNION {{nodes[i].content[k] :
                    k \in {k \in 1..Len(nodes[i].content) :
                              /\ nodes[i].content[k].nodeType = "hyperlink"
                              /\ nodes[i].content[k].data.present}} :
                i \in {i \in 1..Len(nodes) :
                          nodes[i].nodeType = "paragraph" /\ nodes[i].contentKind = "array"}}

\* the line of a hyperlink
LinkLine(link) == "[" \o getTextFromNode(link) \o "](" \o link.data.uri \o ")\n"

\* the text has the line, at its start or after a line break
HasLine(text, line) ==
    \E p \in 1..Len(text) :
       /\ StartsWithAt(text, line, p)
       /\ p = 1 \/ Char(text, p - 1) = "\n"

\* C26: every hyperlink node of a document, one nested inside a paragraph
\* included, is rendered as [text](uri) on a line of its own and is not
\* inlined into the text of the paragraph around it.
C26_HyperlinkOnItsOwnLine ==
    (RenderDone("richText") /\ ~rendering.result.thrown) =>
       \A link \in HyperlinksOf(NodesOf(rendering)) :
          HasLine(rendering.result.out, LinkLine(link))

\* what holds: a hyperlink that is a node of the document itself gets its line
TopLevelHyperlinkOnItsOwnLine ==
    (RenderDone("richText") /\ ~rendering.result.thrown) =>
       \A i \in 1..Len(rendering.nodes) :
          (RichTextNodes[rendering.nodes[i]].nodeType = "hyperlink") =>
             HasLine(rendering.result.out, LinkLine(RichTextNodes[rendering.nodes[i]]))

\* ------------------------------------------------------------------------
\* Properties of the calls of one assembly
\* ------------------------------------------------------------------------

\* the components whose call of renderComponent is in progress
InProgress == [n \in 2..Len(calling.stack) |-> calling.stack[n].id]

AcyclicAssemblyDoesNotReenter ==
    (calling.stage = "running" /\ calling.includes = 1) =>
        /\ \A m, n \in DOMAIN InProgress : InProgress[m] = InProgress[n] => m = n
        /\ \A n \in DOMAIN InProgress :
              FindEntry(CallIncludes[1], InProgress[n]).found

\* a tab list inside a tab list has been entered and the assembly returned
NestedAssemblyReturned ==
    /\ calling.stage = "returned"
    /\ calling.includes = 1
    /\ \E i \in 1..Len(calling.links) : CallLinks[calling.links[i]] = Link("tabs1")

====
